---- MODULE Spec2Model ----
(***************************************************************************)
(* Verification model of the beneat-sol on-chain programs:                 *)
(*   ghost-bridge : ExecutorAuthority registry, compressed and encrypted   *)
(*                  ghost orders, consume_and_execute, trigger_and_execute *)
(*   ghost-crank  : GhostOrder commitment-reveal lifecycle                 *)
(* Every instruction handler is one atomic action: a handler that returns  *)
(* an error leaves every account as it was (the transaction is reverted)   *)
(* and is recorded only in `last`.                                         *)
(***************************************************************************)
EXTENDS Integers, Sequences, FiniteSets, TLC

VARIABLES
    executor,          \* the owner's ExecutorAuthority account (ghost-bridge)
    encrypted_orders,  \* EncryptedOrder accounts, keyed by their PDA seed order_hash
    now,               \* Clock::unix_timestamp
    slot,              \* Clock::slot
    settlements,       \* Drift place_perp_order calls issued so far, in order
    ghost_order,       \* the GhostOrder account (ghost-crank), or NoAccount
    custody,           \* the domain that holds the ExecutorAuthority account
    vault,             \* the owner's Vault account (vault), or NoAccount
    last               \* instruction last processed and its result

vars == <<executor, encrypted_orders, now, slot, settlements, ghost_order, custody, vault, last>>

-----------------------------------------------------------------------------
(* Bounds of the model                                                     *)

MaxTime == 2
MaxSlot == 102
MaxOrderCount == 2
MaxBridgeOrderCount == 2
MaxEncryptedOrders == 1
MaxRegistryOps == 3

(* Program constants                                                       *)

MAX_ORDERS_PER_EXECUTOR == 16
MAX_AUTHORIZED_EXECUTORS == 4
READY_WINDOW_SLOTS == 100

-----------------------------------------------------------------------------
(* Input domains                                                           *)

Owner == "owner"
Signers == {"owner", "keeper"}
Executors == {"keeper"}
OrderIds == {1}
MarketIndexes == {3}
TriggerPrice == 20
TriggerPrices == {TriggerPrice}
Prices == {TriggerPrice - 1, TriggerPrice, TriggerPrice + 1}
ConditionBytes == {0, 1}
SideBytes == {1}
Amounts == {5}
ExpirySeconds == {0, 1}
FeedIds == {"feedA"}
Salts == {1, 2}
Times == 0..MaxTime
Expiries == 0..(MaxTime + 1)
EncryptedExpiries == {0, 1}
ReduceOnlyFlags == {TRUE}

NoAccount == [status |-> "NoAccount"]
NoEvent == [name |-> "none"]

\* What an instruction leaves behind for an observer: its name, its result
\* (Ok or the error code) and the event it emitted.
Outcome(op, result, event) == [op |-> op, result |-> result, event |-> event]

-----------------------------------------------------------------------------
(* Little-endian integers                                                  *)

\* The n low-order bytes of a non-negative integer, least significant first.
RECURSIVE le_bytes(_, _)
le_bytes(value, n) ==
    IF n = 0 THEN <<>> ELSE <<value % 256>> \o le_bytes(value \div 256, n - 1)

\* u16::to_le_bytes, u64::to_le_bytes and i64::to_le_bytes (two's complement).
to_le_bytes(value, n) ==
    IF value >= 0 THEN le_bytes(value, n)
    ELSE [i \in 1..n |-> 255 - le_bytes(-value - 1, n)[i]]

\* The unsigned value of little-endian bytes, most significant byte first so
\* that leading zero bytes cost nothing.
RECURSIVE le_value(_)
le_value(bytes) ==
    IF bytes = <<>> THEN 0 ELSE Head(bytes) + 256 * le_value(Tail(bytes))

\* i64::from_le_bytes: the sign is the top bit of the last byte.
i64_from_le_bytes(bytes) ==
    IF bytes[8] < 128 THEN le_value(bytes)
    ELSE -le_value([i \in 1..8 |-> 255 - bytes[i]]) - 1

-----------------------------------------------------------------------------
(* state/compressed_order.rs                                               *)

TriggerCondition(byte) == IF byte = 0 THEN "Above" ELSE "Below"

OrderSide(byte) == IF byte = 0 THEN "Long" ELSE "Short"

CompressedGhostOrder(owner, order_id, market_index, trigger_price, trigger_condition, order_side, base_asset_amount, reduce_only, expiry, feed_id, salt) ==
    [owner |-> owner, order_id |-> order_id, market_index |-> market_index,
     trigger_price |-> trigger_price, trigger_condition |-> trigger_condition,
     order_side |-> order_side, base_asset_amount |-> base_asset_amount,
     reduce_only |-> reduce_only, expiry |-> expiry, feed_id |-> feed_id, salt |-> salt]

\* A buffer that leaves the salt out.
serialize_without_salt(order) ==
    <<order.owner>>
    \o to_le_bytes(order.order_id, 8)
    \o to_le_bytes(order.market_index, 2)
    \o to_le_bytes(order.trigger_price, 8)
    \o <<IF order.trigger_condition = "Above" THEN 0 ELSE 1,
         IF order.order_side = "Long" THEN 0 ELSE 1>>
    \o to_le_bytes(order.base_asset_amount, 8)
    \o <<IF order.reduce_only THEN 1 ELSE 0>>
    \o to_le_bytes(order.expiry, 8)
    \o <<order.feed_id>>

\* The flat buffer compute_hash feeds to blake3: the eleven fields in the
\* fixed order, integers as little-endian bytes, enums and the bool as their
\* u8 value; the owner (32 bytes), the feed id (32) and the salt (16) are
\* fixed-width blocks, each written here as one element.
serialize(order) ==
    <<order.owner>>
    \o to_le_bytes(order.order_id, 8)
    \o to_le_bytes(order.market_index, 2)
    \o to_le_bytes(order.trigger_price, 8)
    \o <<IF order.trigger_condition = "Above" THEN 0 ELSE 1,
         IF order.order_side = "Long" THEN 0 ELSE 1>>
    \o to_le_bytes(order.base_asset_amount, 8)
    \o <<IF order.reduce_only THEN 1 ELSE 0>>
    \o to_le_bytes(order.expiry, 8)
    \o <<order.feed_id, order.salt>>

\* blake3 as an ideal (collision-free) hash: the digest stands for its preimage.
blake3_hash(data) == <<"blake3", data>>

compute_hash(order) == blake3_hash(serialize(order))

\* [0u8; 32]
ZeroHash == <<"bytes", <<>>>>

check_trigger(order, current_price) ==
    IF order.trigger_condition = "Above"
    THEN current_price >= order.trigger_price
    ELSE current_price <= order.trigger_price

\* A CompressedGhostOrder that never expires.
is_expired_never(order, current_time) == FALSE

is_expired(order, current_time) ==
    order.expiry > 0 /\ current_time > order.expiry

-----------------------------------------------------------------------------
(* state/executor_authority.rs                                             *)

NewExecutorAuthority(owner) ==
    [owner |-> owner, order_count |-> 0, is_delegated |-> FALSE,
     order_hashes |-> [i \in 1..MAX_ORDERS_PER_EXECUTOR |-> ZeroHash],
     order_hash_count |-> 0,
     authorized_executors |-> [i \in 1..MAX_AUTHORIZED_EXECUTORS |-> "default"],
     executor_count |-> 0]

has_order_hash(self, hash) ==
    \E i \in 1..self.order_hash_count : self.order_hashes[i] = hash

\* An add_order_hash without the duplicate scan.
add_order_hash_unchecked(self, hash) ==
    IF self.order_hash_count >= MAX_ORDERS_PER_EXECUTOR
    THEN [err |-> "MaxOrdersReached", self |-> self]
    ELSE [err |-> "Ok",
          self |-> [self EXCEPT
                      !.order_hashes[self.order_hash_count + 1] = hash,
                      !.order_hash_count = self.order_hash_count + 1,
                      !.order_count = self.order_count + 1]]

add_order_hash(self, hash) ==
    IF ~(self.order_hash_count < MAX_ORDERS_PER_EXECUTOR)
    THEN [err |-> "MaxOrdersReached", self |-> self]
    ELSE IF \E i \in 1..self.order_hash_count : self.order_hashes[i] = hash
    THEN [err |-> "OrderHashExists", self |-> self]
    ELSE [err |-> "Ok",
          self |-> [self EXCEPT
                      !.order_hashes[self.order_hash_count + 1] = hash,
                      !.order_hash_count = self.order_hash_count + 1,
                      !.order_count = self.order_count + 1]]

\* A removal that drops the last slot instead of the matching one.
remove_order_hash_last(self, hash) ==
    IF has_order_hash(self, hash)
    THEN [err |-> "Ok",
          self |-> [self EXCEPT !.order_hashes[self.order_hash_count] = ZeroHash,
                                !.order_hash_count = self.order_hash_count - 1]]
    ELSE [err |-> "OrderHashNotFound", self |-> self]

\* A removal that shifts the entries but leaves the vacated slot as it was.
remove_order_hash_no_zero(self, hash) ==
    IF ~has_order_hash(self, hash)
    THEN [err |-> "OrderHashNotFound", self |-> self]
    ELSE LET n == self.order_hash_count
             idx == CHOOSE i \in 1..n :
                        /\ self.order_hashes[i] = hash
                        /\ \A j \in 1..(i - 1) : self.order_hashes[j] # hash
         IN [err |-> "Ok",
             self |-> [self EXCEPT
                         !.order_hashes =
                             [i \in 1..MAX_ORDERS_PER_EXECUTOR |->
                                 IF i < idx THEN self.order_hashes[i]
                                 ELSE IF i < n THEN self.order_hashes[i + 1]
                                 ELSE self.order_hashes[i]],
                         !.order_hash_count = n - 1]]

remove_order_hash(self, hash) ==
    IF ~(\E i \in 1..self.order_hash_count : self.order_hashes[i] = hash)
    THEN [err |-> "OrderHashNotFound", self |-> self]
    ELSE LET n == self.order_hash_count
             idx == CHOOSE i \in 1..n :
                        /\ self.order_hashes[i] = hash
                        /\ \A j \in 1..(i - 1) : self.order_hashes[j] # hash
         IN [err |-> "Ok",
             self |-> [self EXCEPT
                         !.order_hashes =
                             [i \in 1..MAX_ORDERS_PER_EXECUTOR |->
                                 IF i < idx THEN self.order_hashes[i]
                                 ELSE IF i < n THEN self.order_hashes[i + 1]
                                 ELSE IF i = n THEN ZeroHash
                                 ELSE self.order_hashes[i]],
                         !.order_hash_count = n - 1]]

\* A membership test that admits every caller.
is_authorized_executor_anyone(self, who) == TRUE

is_authorized_executor(self, who) ==
    \E i \in 1..self.executor_count : self.authorized_executors[i] = who

\* An add_authorized_executor without the scan for an existing entry.
add_authorized_executor_unchecked(self, who) ==
    IF ~(self.executor_count < MAX_AUTHORIZED_EXECUTORS)
    THEN [err |-> "MaxExecutorsReached", self |-> self]
    ELSE [err |-> "Ok",
          self |-> [self EXCEPT
                      !.authorized_executors[self.executor_count + 1] = who,
                      !.executor_count = self.executor_count + 1]]

add_authorized_executor(self, who) ==
    IF ~(self.executor_count < MAX_AUTHORIZED_EXECUTORS)
    THEN [err |-> "MaxExecutorsReached", self |-> self]
    ELSE IF \E i \in 1..self.executor_count : self.authorized_executors[i] = who
    THEN [err |-> "Ok", self |-> self]
    ELSE [err |-> "Ok",
          self |-> [self EXCEPT
                      !.authorized_executors[self.executor_count + 1] = who,
                      !.executor_count = self.executor_count + 1]]

remove_authorized_executor(self, who) ==
    IF ~(\E i \in 1..self.executor_count : self.authorized_executors[i] = who)
    THEN [err |-> "Ok", self |-> self]
    ELSE LET n == self.executor_count
             idx == CHOOSE i \in 1..n :
                        /\ self.authorized_executors[i] = who
                        /\ \A j \in 1..(i - 1) : self.authorized_executors[j] # who
         IN [err |-> "Ok",
             self |-> [self EXCEPT
                         !.authorized_executors =
                             [i \in 1..MAX_AUTHORIZED_EXECUTORS |->
                                 IF i < idx THEN self.authorized_executors[i]
                                 ELSE IF i < n THEN self.authorized_executors[i + 1]
                                 ELSE IF i = n THEN "default"
                                 ELSE self.authorized_executors[i]],
                         !.executor_count = n - 1]]

\* The active region order_hashes[0..order_hash_count) as a sequence.
ActiveHashes(self) == [i \in 1..self.order_hash_count |-> self.order_hashes[i]]

Range(seq) == {seq[i] : i \in DOMAIN seq}

-----------------------------------------------------------------------------
(* drift_cpi.rs: the Drift place_perp_order call bundled by an execution   *)

\* sha256("global:place_perp_order")[0..8] = 45 a1 5d ca 78 7e 4c b9
PLACE_PERP_ORDER_DISCRIMINATOR == <<69, 161, 93, 202, 120, 126, 76, 185>>

DriftOrderType_Market == 0
DriftMarketType_Perp == 1
DriftPostOnlyParam_None == 0

\* A builder that leaves out the userOrderId byte.
build_drift_place_perp_order_full_no_user_order_id(order_type, market_index, side, base_asset_amount, price, reduce_only, bit_flags) ==
    PLACE_PERP_ORDER_DISCRIMINATOR
    \o <<order_type, DriftMarketType_Perp, IF side = "Long" THEN 0 ELSE 1>>
    \o to_le_bytes(base_asset_amount, 8)
    \o to_le_bytes(price, 8)
    \o to_le_bytes(market_index, 2)
    \o <<IF reduce_only THEN 1 ELSE 0, DriftPostOnlyParam_None, bit_flags>>
    \o <<0, 0, 0, 0, 0, 0, 0>>

build_drift_place_perp_order_full(order_type, market_index, side, base_asset_amount, price, reduce_only, bit_flags) ==
    PLACE_PERP_ORDER_DISCRIMINATOR
    \o <<order_type, DriftMarketType_Perp, IF side = "Long" THEN 0 ELSE 1, 0>>
    \o to_le_bytes(base_asset_amount, 8)
    \o to_le_bytes(price, 8)
    \o to_le_bytes(market_index, 2)
    \o <<IF reduce_only THEN 1 ELSE 0, DriftPostOnlyParam_None, bit_flags>>
    \o <<0, 0, 0, 0, 0, 0, 0>>

build_drift_place_perp_order(market_index, side, base_asset_amount, reduce_only) ==
    build_drift_place_perp_order_full(DriftOrderType_Market, market_index, side,
                                      base_asset_amount, 0, reduce_only, 0)

-----------------------------------------------------------------------------
(* instructions/create_compressed_order.rs                                 *)

\* Arguments with well-formed enum bytes, and one sample with each byte out of range.
WellFormedCreateArgs ==
    [order_id : OrderIds, market_index : MarketIndexes, trigger_price : TriggerPrices,
     trigger_condition : ConditionBytes, order_side : SideBytes,
     base_asset_amount : Amounts, reduce_only : ReduceOnlyFlags,
     expiry_seconds : ExpirySeconds, feed_id : FeedIds, salt : Salts]

CreateCompressedOrderArgs ==
    WellFormedCreateArgs
    \cup { [a EXCEPT !.trigger_condition = 2] : a \in {CHOOSE x \in WellFormedCreateArgs : TRUE} }
    \cup { [a EXCEPT !.order_side = 2] : a \in {CHOOSE x \in WellFormedCreateArgs : TRUE} }

\* The handler as a function of the accounts, the clock and the arguments:
\* result, the ExecutorAuthority it leaves, and the event emitted.
create_compressed_order(self, signer, clock, args) ==
    IF self.owner # signer
    THEN [result |-> "Unauthorized", executor |-> self, event |-> NoEvent]
    ELSE IF args.trigger_condition \notin {0, 1}
    THEN [result |-> "InvalidTriggerCondition", executor |-> self, event |-> NoEvent]
    ELSE IF args.order_side \notin {0, 1}
    THEN [result |-> "InvalidOrderData", executor |-> self, event |-> NoEvent]
    ELSE LET expiry == IF args.expiry_seconds > 0 THEN clock + args.expiry_seconds ELSE 0
             order == CompressedGhostOrder(signer, args.order_id, args.market_index,
                          args.trigger_price, TriggerCondition(args.trigger_condition),
                          OrderSide(args.order_side), args.base_asset_amount,
                          args.reduce_only, expiry, args.feed_id, args.salt)
             order_hash == compute_hash(order)
             added == add_order_hash(self, order_hash)
         IN IF added.err # "Ok"
            THEN [result |-> added.err, executor |-> self, event |-> NoEvent]
            ELSE [result |-> "Ok", executor |-> added.self,
                  event |-> [name |-> "CompressedOrderCreated", owner |-> signer,
                             order_id |-> args.order_id, order_hash |-> order_hash,
                             market_index |-> args.market_index]]

CreateCompressedOrder(signer, args) ==
    /\ LET out == create_compressed_order(executor, signer, now, args)
       IN /\ executor' = out.executor
          /\ last' = Outcome("create_compressed_order", out.result, out.event)
    /\ UNCHANGED <<custody, vault, encrypted_orders, now, slot, settlements, ghost_order>>

\* The calls to create_compressed_order that differ in what the program
\* reads: the owner constraint rejects a foreign signer before the handler
\* looks at the arguments, so those calls are taken at one sample.
CreateCompressedCalls ==
    { c \in [signer : Signers, args : CreateCompressedOrderArgs] :
        c.signer # Owner => c.args = CHOOSE x \in WellFormedCreateArgs : TRUE }

-----------------------------------------------------------------------------
(* instructions/consume_and_execute.rs                                     *)

WellFormedConsumeArgs ==
    [order_id : OrderIds, market_index : MarketIndexes, trigger_price : TriggerPrices,
     trigger_condition : ConditionBytes, order_side : SideBytes,
     base_asset_amount : Amounts, reduce_only : ReduceOnlyFlags,
     expiry : Expiries, feed_id : FeedIds, salt : Salts,
     current_price : Prices, keep_delegated : BOOLEAN]

ConsumeAndExecuteArgs ==
    WellFormedConsumeArgs
    \cup { [a EXCEPT !.trigger_condition = 2] : a \in {CHOOSE x \in WellFormedConsumeArgs : TRUE} }
    \cup { [a EXCEPT !.order_side = 2] : a \in {CHOOSE x \in WellFormedConsumeArgs : TRUE} }

\* constants.rs
DRIFT_PROGRAM_ID == "dRiftyHA39MWEi3m9aunc5MzRF1JYuBsbn6VPcn33UH"

\* consume_and_execute.rs and trigger_and_execute.rs hold the same copy.
build_drift_short_account_metas(drift_state_key, drift_user_key, drift_user_stats_key, authority_key, perp_market_key, oracle_key) ==
    <<[pubkey |-> drift_state_key, is_writable |-> FALSE],
      [pubkey |-> drift_user_key, is_writable |-> TRUE],
      [pubkey |-> authority_key, is_writable |-> FALSE],
      [pubkey |-> drift_user_stats_key, is_writable |-> TRUE],
      [pubkey |-> perp_market_key, is_writable |-> TRUE],
      [pubkey |-> oracle_key, is_writable |-> FALSE]>>

\* The accounts a caller passes for the Drift call.
drift_accounts ==
    build_drift_short_account_metas("drift_state", "drift_user", "drift_user_stats",
                                    "drift_authority", "perp_market", "oracle")

\* The Drift call handler bundled with the commit.
drift_call_handler(drift_ix_data, payer) ==
    [destination_program |-> DRIFT_PROGRAM_ID, accounts |-> drift_accounts,
     args |-> drift_ix_data, escrow_authority |-> payer]

\* A bundle that undelegates whatever the caller asked.
magic_action_always_undelegate(keep_delegated, executor_account_info, call_handler) ==
    [action |-> "CommitAndUndelegate", commit_type |-> "WithHandler",
     commited_accounts |-> <<executor_account_info>>,
     call_handlers |-> <<call_handler>>, undelegate_type |-> "Standalone"]

\* The MagicAction of the bundle: Commit when the caller keeps the record
\* delegated, CommitAndUndelegate otherwise.
magic_action(keep_delegated, executor_account_info, call_handler) ==
    IF keep_delegated
    THEN [action |-> "Commit", commit_type |-> "WithHandler",
          commited_accounts |-> <<executor_account_info>>,
          call_handlers |-> <<call_handler>>, undelegate_type |-> "none"]
    ELSE [action |-> "CommitAndUndelegate", commit_type |-> "WithHandler",
          commited_accounts |-> <<executor_account_info>>,
          call_handlers |-> <<call_handler>>, undelegate_type |-> "Standalone"]

NoMagicAction ==
    [action |-> "none", commit_type |-> "none", commited_accounts |-> <<>>,
     call_handlers |-> <<>>, undelegate_type |-> "none"]

\* invoke_ok: whether magic_builder.build_and_invoke() returns Ok.  When it
\* does not, the `?` propagates the error and the transaction is reverted.
\* `reads` tells how far the handler got: 0 it returned before looking at
\* current_price, 1 it checked the trigger, 2 it went on to keep_delegated and
\* the bundle.
consume_and_execute(self, payer, clock, args, invoke_ok) ==
    LET fail(e, n) == [result |-> e, executor |-> self, calls |-> <<>>,
                       event |-> NoEvent, magic_action |-> NoMagicAction,
                       at_invoke |-> self, reads |-> n]
    IN
    IF args.trigger_condition \notin {0, 1} THEN fail("InvalidTriggerCondition", 0)
    ELSE IF args.order_side \notin {0, 1} THEN fail("InvalidOrderData", 0)
    ELSE LET owner == self.owner
             order_side == OrderSide(args.order_side)
             order == CompressedGhostOrder(owner, args.order_id, args.market_index,
                          args.trigger_price, TriggerCondition(args.trigger_condition),
                          order_side, args.base_asset_amount,
                          args.reduce_only, args.expiry, args.feed_id, args.salt)
             order_hash == compute_hash(order)
         IN IF ~has_order_hash(self, order_hash) THEN fail("OrderHashNotFound", 0)
            ELSE IF is_expired(order, clock) THEN fail("OrderExpired", 0)
            ELSE IF ~check_trigger(order, args.current_price)
            THEN fail("TriggerConditionNotMet", 1)
            ELSE LET removed == remove_order_hash(self, order_hash)
                     after == IF ~args.keep_delegated
                              THEN [removed.self EXCEPT !.is_delegated = FALSE]
                              ELSE removed.self
                     drift_ix_data == build_drift_place_perp_order(args.market_index,
                                          order_side, args.base_asset_amount,
                                          args.reduce_only)
                 IN IF removed.err # "Ok" THEN fail(removed.err, 1)
                    ELSE IF ~invoke_ok THEN fail("SubcallFailure", 2)
                    ELSE [result |-> "Ok", executor |-> after,
                          calls |-> <<drift_ix_data>>,
                          event |-> [name |-> "GhostOrderExecuted", owner |-> owner,
                                     order_id |-> args.order_id,
                                     order_hash |-> order_hash,
                                     market_index |-> args.market_index,
                                     execution_price |-> args.current_price],
                          magic_action |->
                             magic_action(args.keep_delegated, "executor_authority",
                                          drift_call_handler(drift_ix_data, payer)),
                          at_invoke |-> after,
                          reads |-> 2]

ConsumeAndExecute(payer, args, invoke_ok) ==
    LET out == consume_and_execute(executor, payer, now, args, invoke_ok)
    IN /\ executor' = out.executor
       /\ settlements' = settlements \o out.calls
       /\ custody' = IF out.result = "Ok" /\ ~args.keep_delegated
                      THEN "base_layer" ELSE custody
       /\ last' = Outcome("consume_and_execute", out.result, out.event)
       /\ UNCHANGED <<vault, encrypted_orders, now, slot, ghost_order>>

\* The calls to consume_and_execute that differ in what the handler reads:
\* an argument it returns before reading is taken at one sample value.
ConsumeSampleArgs ==
    {x \in ConsumeAndExecuteArgs : x.current_price = TriggerPrice /\ ~x.keep_delegated}

ConsumeCalls ==
    LET call(a, ok) == [args |-> a, invoke_ok |-> ok]
        reads(a) == consume_and_execute(executor, Owner, now, a, TRUE).reads
        late(a) == IF reads(a) < 2 THEN {call(a, TRUE)}
                   ELSE {call([a EXCEPT !.keep_delegated = k], ok) :
                           k \in BOOLEAN, ok \in BOOLEAN}
        staged(a) == IF reads(a) < 1 THEN {call(a, TRUE)}
                     ELSE UNION {late([a EXCEPT !.current_price = p]) :
                                   p \in Prices}
    IN UNION {staged(a) : a \in ConsumeSampleArgs}

-----------------------------------------------------------------------------
(* Price feed accounts and the strict reader of trigger_and_execute.rs     *)

PYTH_RECEIVER_ID == "rec5EKMGg6MxZYaMdyBfgwp4d5rB9T1VQH5pJv5LtFJ"

\* The two accepted markers: b"PYTH" and [0x50, 0x32, 0x55, 0x56].
PYTH_MAGIC == <<80, 89, 84, 72>>
P2UV_MAGIC == <<80, 50, 85, 86>>

\* The bytes of a feed account of the given length: the marker at [0..4),
\* the price as a little-endian i64 at [40..48), and other content elsewhere.
PriceFeedData(magic, len, price) ==
    LET price_bytes == to_le_bytes(price, 8)
    IN [i \in 1..len |-> IF i <= 4 THEN magic[i]
                         ELSE IF i \in 41..48 THEN price_bytes[i - 40]
                         ELSE 170]

\* A feed account: its owner program and its data.
PriceFeed(owner, magic, len, price) ==
    [owner |-> owner, data |-> PriceFeedData(magic, len, price)]

PriceFeeds ==
    {PriceFeed(PYTH_RECEIVER_ID, PYTH_MAGIC, 64, p) : p \in Prices}
    \cup {PriceFeed("other", PYTH_MAGIC, 64, TriggerPrice),
          PriceFeed(PYTH_RECEIVER_ID, PYTH_MAGIC, 32, TriggerPrice),
          PriceFeed(PYTH_RECEIVER_ID, <<88, 88, 88, 88>>, 64, TriggerPrice)}

DefaultFeed == PriceFeed(PYTH_RECEIVER_ID, PYTH_MAGIC, 64, TriggerPrice)

\* A reader that accepts any first four bytes.
read_pyth_price_any_magic(price_feed) ==
    IF price_feed.owner # PYTH_RECEIVER_ID
    THEN [err |-> "InvalidPriceFeed", price |-> 0]
    ELSE IF Len(price_feed.data) < 64
    THEN [err |-> "InvalidPriceFeed", price |-> 0]
    ELSE [err |-> "Ok",
          price |-> i64_from_le_bytes(SubSeq(price_feed.data, 41, 48))]

read_pyth_price(price_feed) ==
    LET data == price_feed.data
        magic == SubSeq(data, 1, 4)
        price_offset == 32 + 8
    IN IF price_feed.owner # PYTH_RECEIVER_ID
       THEN [err |-> "InvalidPriceFeed", price |-> 0]
       ELSE IF Len(data) < 64
       THEN [err |-> "InvalidPriceFeed", price |-> 0]
       ELSE IF magic # PYTH_MAGIC /\ magic # P2UV_MAGIC
       THEN [err |-> "InvalidPriceFeed", price |-> 0]
       ELSE IF Len(data) < price_offset + 8
       THEN [err |-> "InvalidPriceFeed", price |-> 0]
       ELSE [err |-> "Ok",
             price |-> i64_from_le_bytes(SubSeq(data, price_offset + 1,
                                                price_offset + 8))]

-----------------------------------------------------------------------------
(* instructions/create_encrypted_order.rs                                  *)

MAX_ENCRYPTED_DATA_LEN == 256

\* Orders whose hashes a client may commit to.
CommittableOrders ==
    { CompressedGhostOrder(Owner, id, m, tp, TriggerCondition(c), OrderSide(sd),
                           a, r, e, f, st) :
        id \in OrderIds, m \in MarketIndexes, tp \in TriggerPrices,
        c \in ConditionBytes, sd \in SideBytes, a \in Amounts, r \in ReduceOnlyFlags,
        e \in EncryptedExpiries,
        f \in FeedIds, st \in Salts }

OrderHashes == { compute_hash(o) : o \in CommittableOrders }

CreateEncryptedOrderArgs ==
    [order_hash : OrderHashes, data_len : {0, 8, MAX_ENCRYPTED_DATA_LEN + 1},
     feed_id : FeedIds]

\* `account` is the EncryptedOrder PDA for (signer, args.order_hash) as it is
\* before the instruction: NoAccount unless it was created and not yet closed.
create_encrypted_order(self, account, signer, clock, args) ==
    LET fail(e) == [result |-> e, executor |-> self, encrypted_order |-> account,
                    event |-> NoEvent]
    IN
    IF self.owner # signer THEN fail("Unauthorized")
    ELSE IF account # NoAccount THEN fail("AccountAlreadyInUse")
    ELSE IF ~(args.data_len <= MAX_ENCRYPTED_DATA_LEN) THEN fail("InvalidOrderData")
    ELSE IF ~(args.data_len > 0) THEN fail("InvalidOrderData")
    ELSE LET added == add_order_hash(self, args.order_hash)
         IN IF added.err # "Ok" THEN fail(added.err)
            ELSE [result |-> "Ok", executor |-> added.self,
                  encrypted_order |->
                      [status |-> "Active", owner |-> signer,
                       order_hash |-> args.order_hash, data_len |-> args.data_len,
                       feed_id |-> args.feed_id, created_at |-> clock,
                       triggered_at |-> 0, execution_price |-> 0],
                  event |-> [name |-> "EncryptedOrderCreated", owner |-> signer,
                             order_hash |-> args.order_hash, feed_id |-> args.feed_id,
                             created_at |-> clock]]

\* The account stored under `key`, or NoAccount.
AccountAt(key) ==
    IF key \in DOMAIN encrypted_orders THEN encrypted_orders[key] ELSE NoAccount

\* The account map after an instruction left `account` under `key`.
StoreAccount(key, account) ==
    IF account = NoAccount
    THEN [k \in (DOMAIN encrypted_orders) \ {key} |-> encrypted_orders[k]]
    ELSE [k \in (DOMAIN encrypted_orders) \cup {key} |->
             IF k = key THEN account ELSE encrypted_orders[k]]

CreateEncryptedOrder(signer, args) ==
    /\ LET out == create_encrypted_order(executor, AccountAt(args.order_hash),
                                         signer, now, args)
       IN /\ executor' = out.executor
          /\ encrypted_orders' = StoreAccount(args.order_hash, out.encrypted_order)
          /\ last' = Outcome("create_encrypted_order", out.result, out.event)
    /\ UNCHANGED <<custody, vault, now, slot, settlements, ghost_order>>

-----------------------------------------------------------------------------
(* instructions/trigger_and_execute.rs                                     *)

WellFormedTriggerArgs ==
    [salt : Salts, order_id : OrderIds, market_index : MarketIndexes,
     trigger_price : TriggerPrices, trigger_condition : ConditionBytes,
     order_side : SideBytes, base_asset_amount : Amounts,
     reduce_only : ReduceOnlyFlags, expiry : EncryptedExpiries,
     redelegate_after : BOOLEAN]

TriggerAndExecuteArgs ==
    WellFormedTriggerArgs
    \cup { [a EXCEPT !.trigger_condition = 2] : a \in {CHOOSE x \in WellFormedTriggerArgs : TRUE} }
    \cup { [a EXCEPT !.order_side = 2] : a \in {CHOOSE x \in WellFormedTriggerArgs : TRUE} }

RemainingAccountLens == {0, 3}

\* build_redelegate_handler: the delegation call handler, or the error.
build_redelegate_handler(remaining_accounts_len) ==
    IF remaining_accounts_len < 3
    THEN [err |-> "MagicActionFailed", handler |-> <<>>]
    ELSE [err |-> "Ok", handler |-> <<"delegate">>]

\* `reads` tells how far the handler got: 0 it returned before building the
\* order from the arguments, 1 before read_pyth_price, 2 before the bundle,
\* 3 it reached the bundle.
trigger_and_execute(self, account, payer, clock, args, price_feed, remaining_accounts_len, invoke_ok) ==
    LET fail(e, n) == [result |-> e, executor |-> self, encrypted_order |-> account,
                       calls |-> <<>>, event |-> NoEvent,
                       at_invoke |-> <<self, account>>, reads |-> n]
    IN
    IF account = NoAccount THEN fail("AccountNotInitialized", 0)
    ELSE IF args.trigger_condition \notin {0, 1} THEN fail("InvalidTriggerCondition", 0)
    ELSE IF args.order_side \notin {0, 1} THEN fail("InvalidOrderData", 0)
    ELSE IF account.status # "Active" THEN fail("OrderNotActive", 0)
    ELSE IF ~(is_authorized_executor(self, payer) \/ self.owner = payer)
    THEN fail("ExecutorNotAuthorized", 0)
    ELSE
    LET owner == account.owner
        stored_hash == account.order_hash
        order_side == OrderSide(args.order_side)
        order == CompressedGhostOrder(owner, args.order_id, args.market_index,
                     args.trigger_price, TriggerCondition(args.trigger_condition),
                     order_side, args.base_asset_amount, args.reduce_only,
                     args.expiry, account.feed_id, args.salt)
        computed_hash == compute_hash(order)
    IN
    IF computed_hash # stored_hash THEN fail("OrderHashMismatch", 1)
    ELSE IF is_expired(order, clock)
    THEN [result |-> "Ok", executor |-> self,
          encrypted_order |-> [account EXCEPT !.status = "Cancelled"],
          calls |-> <<>>, event |-> NoEvent, at_invoke |-> <<self, account>>,
          reads |-> 1]
    ELSE
    LET read == read_pyth_price(price_feed)
        current_price == read.price
    IN
    IF read.err # "Ok" THEN fail(read.err, 2)
    ELSE IF ~check_trigger(order, current_price)
    THEN [result |-> "Ok", executor |-> self, encrypted_order |-> account,
          calls |-> <<>>, event |-> NoEvent, at_invoke |-> <<self, account>>,
          reads |-> 2]
    ELSE IF ~has_order_hash(self, computed_hash) THEN fail("OrderHashNotFound", 2)
    ELSE
    LET removed == remove_order_hash(self, computed_hash)
        executed == [account EXCEPT !.status = "Executed",
                                    !.triggered_at = clock,
                                    !.execution_price = current_price]
        drift_ix_data == build_drift_place_perp_order(args.market_index, order_side,
                             args.base_asset_amount, args.reduce_only)
        redelegate == build_redelegate_handler(remaining_accounts_len)
    IN
    IF removed.err # "Ok" THEN fail(removed.err, 2)
    ELSE IF args.redelegate_after /\ redelegate.err # "Ok" THEN fail(redelegate.err, 3)
    ELSE IF ~invoke_ok THEN fail("SubcallFailure", 3)
    ELSE [result |-> "Ok", executor |-> removed.self, encrypted_order |-> executed,
          calls |-> <<drift_ix_data>>,
          event |-> [name |-> "OrderTriggeredAndExecuted", owner |-> owner,
                     order_hash |-> computed_hash, market_index |-> args.market_index,
                     order_side |-> args.order_side,
                     base_asset_amount |-> args.base_asset_amount,
                     trigger_price |-> args.trigger_price,
                     execution_price |-> current_price, executed_at |-> clock,
                     redelegated |-> args.redelegate_after],
          at_invoke |-> <<removed.self, executed>>,
          reads |-> 3]

TriggerAndExecute(payer, key, args, price_feed, remaining_accounts_len, invoke_ok) ==
    LET out == trigger_and_execute(executor, AccountAt(key), payer, now, args,
                                   price_feed, remaining_accounts_len, invoke_ok)
    IN /\ executor' = out.executor
       /\ encrypted_orders' = StoreAccount(key, out.encrypted_order)
       /\ settlements' = settlements \o out.calls
       /\ last' = Outcome("trigger_and_execute", out.result, out.event)
       /\ UNCHANGED <<custody, vault, now, slot, ghost_order>>

TriggerSampleArgs == {x \in TriggerAndExecuteArgs : ~x.redelegate_after}

TriggerByteSamples ==
    {x \in TriggerSampleArgs :
        \/ x.trigger_condition \notin {0, 1}
        \/ x.order_side \notin {0, 1}
        \/ x = CHOOSE y \in WellFormedTriggerArgs : ~y.redelegate_after}

\* The calls to trigger_and_execute that differ in what the handler reads:
\* an input it returns before reading is taken at one sample value (the
\* order fields unless it builds the order, the feed unless it reaches
\* read_pyth_price, redelegate_after, the remaining accounts and the outcome
\* of build_and_invoke unless it reaches the bundle).
TriggerCalls(payer, key) ==
    LET call(a, f, n, ok) == [args |-> a, price_feed |-> f,
                              remaining_accounts_len |-> n, invoke_ok |-> ok]
        reads(a, f) == trigger_and_execute(executor, AccountAt(key), payer, now,
                                           a, f, 3, TRUE).reads
        late(a, f) == IF reads(a, f) < 3 THEN {call(a, f, 3, TRUE)}
                      ELSE {call([a EXCEPT !.redelegate_after = r], f, n, ok) :
                              r \in BOOLEAN, n \in RemainingAccountLens,
                              ok \in BOOLEAN}
        fed(a) == IF reads(a, DefaultFeed) < 2 THEN {call(a, DefaultFeed, 3, TRUE)}
                  ELSE UNION {late(a, f) : f \in PriceFeeds}
        built == \E a \in TriggerSampleArgs : reads(a, DefaultFeed) > 0
    IN UNION {fed(a) : a \in IF built THEN TriggerSampleArgs ELSE TriggerByteSamples}

-----------------------------------------------------------------------------
(* instructions/cancel_encrypted_order.rs, close_encrypted_order.rs        *)

cancel_encrypted_order(self, account, signer) ==
    LET fail(e) == [result |-> e, executor |-> self, encrypted_order |-> account,
                    event |-> NoEvent]
    IN
    IF account = NoAccount THEN fail("AccountNotInitialized")
    ELSE IF account.owner # signer THEN fail("Unauthorized")
    ELSE IF account.status # "Active" THEN fail("InvalidOrderData")
    ELSE IF self.owner # signer THEN fail("Unauthorized")
    ELSE LET removed == remove_order_hash(self, account.order_hash)
         IN IF removed.err # "Ok" THEN fail(removed.err)
            ELSE [result |-> "Ok", executor |-> removed.self,
                  encrypted_order |-> [account EXCEPT !.status = "Cancelled"],
                  event |-> [name |-> "EncryptedOrderCancelled", owner |-> signer,
                             order_hash |-> account.order_hash]]

CancelEncryptedOrder(signer, key) ==
    LET out == cancel_encrypted_order(executor, AccountAt(key), signer)
    IN /\ executor' = out.executor
       /\ encrypted_orders' = StoreAccount(key, out.encrypted_order)
       /\ last' = Outcome("cancel_encrypted_order", out.result, out.event)
       /\ UNCHANGED <<custody, vault, now, slot, settlements, ghost_order>>

\* A close_encrypted_order whose accounts do not constrain the status.
close_encrypted_order_any_status(account, signer) ==
    IF account = NoAccount
    THEN [result |-> "AccountNotInitialized", encrypted_order |-> account,
          event |-> NoEvent]
    ELSE IF account.owner # signer
    THEN [result |-> "Unauthorized", encrypted_order |-> account, event |-> NoEvent]
    ELSE [result |-> "Ok", encrypted_order |-> NoAccount,
          event |-> [name |-> "EncryptedOrderClosed", owner |-> signer,
                     order_hash |-> account.order_hash]]

\* close = owner: on success the account is reclaimed.
close_encrypted_order(account, signer) ==
    IF account = NoAccount
    THEN [result |-> "AccountNotInitialized", encrypted_order |-> account,
          event |-> NoEvent]
    ELSE IF account.owner # signer
    THEN [result |-> "Unauthorized", encrypted_order |-> account, event |-> NoEvent]
    ELSE IF ~(account.status = "Executed" \/ account.status = "Cancelled")
    THEN [result |-> "InvalidOrderData", encrypted_order |-> account, event |-> NoEvent]
    ELSE [result |-> "Ok", encrypted_order |-> NoAccount,
          event |-> [name |-> "EncryptedOrderClosed", owner |-> signer,
                     order_hash |-> account.order_hash]]

CloseEncryptedOrder(signer, key) ==
    LET out == close_encrypted_order(AccountAt(key), signer)
    IN /\ encrypted_orders' = StoreAccount(key, out.encrypted_order)
       /\ last' = Outcome("close_encrypted_order", out.result, out.event)
       /\ UNCHANGED <<custody, vault, executor, now, slot, settlements, ghost_order>>

-----------------------------------------------------------------------------
(* instructions/check_price_update.rs                                      *)

\* The accounts constraint admits only an Active order, so the handler's own
\* status test never returns early; the order account is not writable.
check_price_update(account, price_feed) ==
    IF account = NoAccount
    THEN [result |-> "AccountNotInitialized", encrypted_order |-> account,
          event |-> NoEvent]
    ELSE IF account.status # "Active"
    THEN [result |-> "ConstraintRaw", encrypted_order |-> account, event |-> NoEvent]
    ELSE LET read == read_pyth_price(price_feed)
         IN IF read.err # "Ok"
            THEN [result |-> read.err, encrypted_order |-> account, event |-> NoEvent]
            ELSE [result |-> "Ok", encrypted_order |-> account,
                  event |-> [name |-> "PriceUpdateChecked",
                             order_hash |-> account.order_hash,
                             feed_id |-> account.feed_id,
                             current_price |-> read.price]]

CheckPriceUpdate(key, price_feed) ==
    LET out == check_price_update(AccountAt(key), price_feed)
    IN /\ encrypted_orders' = StoreAccount(key, out.encrypted_order)
       /\ last' = Outcome("check_price_update", out.result, out.event)
       /\ UNCHANGED <<custody, vault, executor, now, slot, settlements, ghost_order>>

-----------------------------------------------------------------------------
(* instructions/authorize_executor.rs                                      *)

authorize_executor(self, signer, args) ==
    IF self.owner # signer
    THEN [result |-> "Unauthorized", executor |-> self, event |-> NoEvent]
    ELSE LET changed == IF args.authorize
                        THEN add_authorized_executor(self, args.executor)
                        ELSE remove_authorized_executor(self, args.executor)
         IN IF changed.err # "Ok"
            THEN [result |-> changed.err, executor |-> self, event |-> NoEvent]
            ELSE [result |-> "Ok", executor |-> changed.self,
                  event |-> [name |-> "ExecutorAuthorizationChanged", owner |-> signer,
                             executor |-> args.executor, authorized |-> args.authorize]]

AuthorizeExecutor(signer, args) ==
    LET out == authorize_executor(executor, signer, args)
    IN /\ executor' = out.executor
       /\ last' = Outcome("authorize_executor", out.result, out.event)
       /\ UNCHANGED <<custody, vault, encrypted_orders, now, slot, settlements, ghost_order>>

-----------------------------------------------------------------------------
(* The ghost-bridge program                                                *)

\* Clock::unix_timestamp advances.
Tick ==
    /\ now < MaxTime
    /\ now' = now + 1
    /\ last' = Outcome("clock", "Ok", NoEvent)
    /\ UNCHANGED <<custody, vault, executor, encrypted_orders, slot, settlements, ghost_order>>

\* After init_executor for Owner, no order created yet.
Init ==
    /\ executor = NewExecutorAuthority(Owner)
    /\ encrypted_orders = <<>>
    /\ now = 0
    /\ slot = 0
    /\ settlements = <<>>
    /\ ghost_order = NoAccount
    /\ custody = "base_layer"
    /\ vault = NoAccount
    /\ last = Outcome("init_executor", "Ok", NoEvent)

\* The compressed-order instructions alone.
NextCompressed ==
    \/ \E c \in CreateCompressedCalls :
          /\ executor.order_count < MaxOrderCount
          /\ CreateCompressedOrder(c.signer, c.args)
    \/ \E payer \in Signers, c \in ConsumeCalls :
          ConsumeAndExecute(payer, c.args, c.invoke_ok)
    \/ Tick

SpecCompressed == Init /\ [][NextCompressed]_vars

\* The two mechanisms share one registry.  The specification that runs them
\* together draws its orders from a narrower scope than the specifications
\* that run one mechanism alone.
BridgeScope(args) == args.salt = 1 /\ args.trigger_condition # 1

BridgeOrderHashes ==
    { compute_hash(o) : o \in {x \in CommittableOrders :
                                  x.salt = 1 /\ x.trigger_condition = "Above"} }

NextBridge ==
    \/ \E c \in CreateCompressedCalls :
          /\ executor.order_count < MaxBridgeOrderCount
          /\ BridgeScope(c.args)
          /\ CreateCompressedOrder(c.signer, c.args)
    \/ \E payer \in Signers, c \in ConsumeCalls :
          /\ BridgeScope(c.args)
          /\ ConsumeAndExecute(payer, c.args, c.invoke_ok)
    \/ \E signer \in Signers, args \in CreateEncryptedOrderArgs :
          /\ executor.order_count < MaxBridgeOrderCount
          /\ Cardinality(DOMAIN encrypted_orders) < MaxEncryptedOrders
          /\ args.order_hash \in BridgeOrderHashes
          /\ CreateEncryptedOrder(signer, args)
    \/ \E payer \in Signers, key \in DOMAIN encrypted_orders :
          \E c \in TriggerCalls(payer, key) :
             /\ BridgeScope(c.args)
             /\ TriggerAndExecute(payer, key, c.args, c.price_feed,
                                  c.remaining_accounts_len, c.invoke_ok)
    \/ \E signer \in Signers, key \in DOMAIN encrypted_orders :
          CancelEncryptedOrder(signer, key)
    \/ \E signer \in Signers, key \in DOMAIN encrypted_orders :
          CloseEncryptedOrder(signer, key)
    \/ Tick

SpecBridge == Init /\ [][NextBridge]_vars

NextEncrypted ==
    \/ \E signer \in Signers, args \in CreateEncryptedOrderArgs :
          /\ executor.order_count < MaxBridgeOrderCount
          /\ Cardinality(DOMAIN encrypted_orders) < MaxEncryptedOrders
          /\ CreateEncryptedOrder(signer, args)
    \/ \E payer \in Signers, key \in DOMAIN encrypted_orders :
          \E c \in TriggerCalls(payer, key) :
             TriggerAndExecute(payer, key, c.args, c.price_feed,
                               c.remaining_accounts_len, c.invoke_ok)
    \/ \E signer \in Signers, key \in DOMAIN encrypted_orders :
          CancelEncryptedOrder(signer, key)
    \/ \E signer \in Signers, key \in DOMAIN encrypted_orders :
          CloseEncryptedOrder(signer, key)
    \/ \E signer \in Signers, who \in Executors, authorize \in BOOLEAN :
          AuthorizeExecutor(signer, [executor |-> who, authorize |-> authorize])
    \/ \E key \in DOMAIN encrypted_orders, price_feed \in PriceFeeds :
          CheckPriceUpdate(key, price_feed)
    \/ Tick

SpecEncrypted == Init /\ [][NextEncrypted]_vars

-----------------------------------------------------------------------------
(* ghost-crank: state/ghost_order.rs                                       *)

Conditions == {"Above", "Below"}
Sides == {"Long", "Short"}
Nonces == {7, 8}
OrderNonces == {7}
CrankAmounts == {5, 6}

\* execute_with_commitment.rs, OrderParams
OrderParams ==
    [market_index : MarketIndexes, order_side : {"Short"},
     base_asset_amount : CrankAmounts, reduce_only : ReduceOnlyFlags]

\* borsh: market_index u16, order_side u8, base_asset_amount u64, reduce_only u8
try_to_vec(order_params) ==
    <<order_params.market_index,
      IF order_params.order_side = "Long" THEN 0 ELSE 1,
      order_params.base_asset_amount,
      IF order_params.reduce_only THEN 1 ELSE 0>>

\* solana_program::hash::hash (SHA-256), collision-free on the inputs drawn
solana_hash(data) == <<"sha256", data>>

\* hash(borsh(order_params) || nonce.to_le_bytes())
commitment(order_params, nonce) == solana_hash(try_to_vec(order_params) \o <<nonce>>)

Commitments == {commitment(op, n) : op \in OrderParams, n \in OrderNonces}

ghost_is_active(self) == self.status = "Active"

ghost_is_expired(self, current_time) ==
    self.expiry > 0 /\ current_time > self.expiry

is_ready_expired(self, current_slot) ==
    self.ready_expires_at > 0 /\ current_slot > self.ready_expires_at

\* A predicate that excludes the trigger price itself.
ghost_check_trigger_strict(self, current_price) ==
    IF self.trigger_condition = "Above"
    THEN current_price > self.trigger_price
    ELSE current_price < self.trigger_price

ghost_check_trigger(self, current_price) ==
    IF self.trigger_condition = "Above"
    THEN current_price >= self.trigger_price
    ELSE current_price <= self.trigger_price

-----------------------------------------------------------------------------
(* ghost-crank: instructions/create_ghost_order.rs, delegate_order.rs      *)

CreateGhostOrderArgs ==
    [order_id : OrderIds, market_index : MarketIndexes, trigger_price : TriggerPrices,
     trigger_condition : Conditions, order_side : {"Short"},
     base_asset_amount : Amounts, reduce_only : ReduceOnlyFlags,
     expiry_seconds : ExpirySeconds, feed_id : FeedIds,
     params_commitment : Commitments, nonce : OrderNonces,
     drift_user : {"drift_user"}]

\* `account` is the GhostOrder PDA of (owner, args.order_id) before the call.
create_ghost_order(account, owner, clock, args) ==
    IF account # NoAccount
    THEN [result |-> "AccountAlreadyInUse", ghost_order |-> account]
    ELSE [result |-> "Ok",
          ghost_order |->
            [owner |-> owner, order_id |-> args.order_id,
             market_index |-> args.market_index,
             trigger_price |-> args.trigger_price,
             trigger_condition |-> args.trigger_condition,
             order_side |-> args.order_side,
             base_asset_amount |-> args.base_asset_amount,
             reduce_only |-> args.reduce_only, status |-> "Pending",
             created_at |-> clock, triggered_at |-> 0, executed_at |-> 0,
             expiry |-> IF args.expiry_seconds > 0
                        THEN clock + args.expiry_seconds ELSE 0,
             feed_id |-> args.feed_id, crank_task_id |-> 0, execution_price |-> 0,
             params_commitment |-> args.params_commitment, nonce |-> args.nonce,
             ready_expires_at |-> 0, delegate_pda |-> <<"ghost_delegate", owner>>,
             drift_user |-> args.drift_user]]

\* init fails on an existing account before the arguments are used.
CreateGhostOrderCalls ==
    IF ghost_order = NoAccount THEN CreateGhostOrderArgs
    ELSE {CHOOSE a \in CreateGhostOrderArgs : TRUE}

CreateGhostOrder(owner, args) ==
    LET out == create_ghost_order(ghost_order, owner, now, args)
    IN /\ ghost_order' = out.ghost_order
       /\ last' = Outcome("create_ghost_order", out.result, NoEvent)
       /\ UNCHANGED <<custody, vault, executor, encrypted_orders, now, slot, settlements>>

\* activate_order.  The account constraints (seeds over the signer, owner,
\* status == Pending) are checked before the handler runs.
\* An activate_order whose accounts do not constrain the status.
activate_handler_any_status(account, owner) ==
    IF account = NoAccount
    THEN [result |-> "AccountNotInitialized", ghost_order |-> account]
    ELSE IF account.owner # owner
    THEN [result |-> "ConstraintSeeds", ghost_order |-> account]
    ELSE [result |-> "Ok", ghost_order |-> [account EXCEPT !.status = "Active"]]

activate_handler(account, owner) ==
    IF account = NoAccount
    THEN [result |-> "AccountNotInitialized", ghost_order |-> account]
    ELSE IF account.owner # owner
    THEN [result |-> "ConstraintSeeds", ghost_order |-> account]
    ELSE IF account.status # "Pending"
    THEN [result |-> "ConstraintRaw", ghost_order |-> account]
    ELSE [result |-> "Ok", ghost_order |-> [account EXCEPT !.status = "Active"]]

ActivateOrder(owner) ==
    LET out == activate_handler(ghost_order, owner)
    IN /\ ghost_order' = out.ghost_order
       /\ last' = Outcome("activate_order", out.result, NoEvent)
       /\ UNCHANGED <<custody, vault, executor, encrypted_orders, now, slot, settlements>>

-----------------------------------------------------------------------------
(* ghost-crank: instructions/check_trigger.rs                              *)

\* The legacy reader: any account, price at offset 8, 0 when shorter than 32.
CrankFeeds ==
    {[len |-> 64, price |-> p] : p \in Prices} \cup {[len |-> 16, price |-> TriggerPrice]}

crank_read_pyth_price(price_feed) ==
    IF price_feed.len < 32 THEN 0
    ELSE IF price_feed.len < 8 + 8 THEN 0
    ELSE price_feed.price

crank_check_trigger(account, clock, price_feed) ==
    IF account = NoAccount
    THEN [result |-> "AccountNotInitialized", ghost_order |-> account]
    ELSE IF ~ghost_is_active(account) THEN [result |-> "Ok", ghost_order |-> account]
    ELSE IF ghost_is_expired(account, clock)
    THEN [result |-> "Ok", ghost_order |-> [account EXCEPT !.status = "Expired"]]
    ELSE LET current_price == crank_read_pyth_price(price_feed)
         IN IF ghost_check_trigger(account, current_price)
            THEN [result |-> "Ok",
                  ghost_order |-> [account EXCEPT !.status = "Triggered",
                                                  !.triggered_at = clock,
                                                  !.execution_price = current_price]]
            ELSE [result |-> "Ok", ghost_order |-> account]

CheckTrigger(price_feed) ==
    LET out == crank_check_trigger(ghost_order, now, price_feed)
    IN /\ ghost_order' = out.ghost_order
       /\ last' = Outcome("check_trigger", out.result, NoEvent)
       /\ UNCHANGED <<custody, vault, executor, encrypted_orders, now, slot, settlements>>

-----------------------------------------------------------------------------
(* ghost-crank: instructions/mark_ready.rs                                 *)

\* A mark_ready that accepts an order in any status.
mark_ready_any_status(account, clock_slot, execution_price) ==
    IF account = NoAccount
    THEN [result |-> "AccountNotInitialized", ghost_order |-> account]
    ELSE [result |-> "Ok",
          ghost_order |-> [account EXCEPT
                             !.status = "ReadyToExecute",
                             !.execution_price = execution_price,
                             !.ready_expires_at = clock_slot + READY_WINDOW_SLOTS]]

mark_ready(account, clock_slot, execution_price) ==
    IF account = NoAccount
    THEN [result |-> "AccountNotInitialized", ghost_order |-> account]
    ELSE IF account.status # "Triggered"
    THEN [result |-> "NotTriggered", ghost_order |-> account]
    ELSE [result |-> "Ok",
          ghost_order |-> [account EXCEPT
                             !.status = "ReadyToExecute",
                             !.execution_price = execution_price,
                             !.ready_expires_at = clock_slot + READY_WINDOW_SLOTS]]

MarkReadyPrices == {TriggerPrice, TriggerPrice + 1}

MarkReady(execution_price) ==
    LET out == mark_ready(ghost_order, slot, execution_price)
    IN /\ ghost_order' = out.ghost_order
       /\ last' = Outcome("mark_ready", out.result, NoEvent)
       /\ UNCHANGED <<custody, vault, executor, encrypted_orders, now, slot, settlements>>

-----------------------------------------------------------------------------
(* ghost-crank: instructions/execute_with_commitment.rs                    *)

ExecuteWithCommitmentArgs == [order_params : OrderParams, nonce : Nonces]

DriftUsers == {"drift_user", "other_user"}

\* discriminator 45 a1 3b 69 28 1c fa 63, then order type, direction, market
\* index, amount, price, reduce only, post only, immediate or cancel.
commitment_build_drift_place_perp_order(market_index, side, base_asset_amount, reduce_only) ==
    <<69, 161, 59, 105, 40, 28, 250, 99>>
    \o <<0, IF side = "Long" THEN 0 ELSE 1>>
    \o to_le_bytes(market_index, 2)
    \o to_le_bytes(base_asset_amount, 8)
    \o to_le_bytes(0, 8)
    \o <<IF reduce_only THEN 1 ELSE 0, 0, 0>>

\* The account list of the Drift instruction; the authority is the delegate
\* PDA, which signs through invoke_signed.
commitment_drift_accounts(drift_state_key, drift_user_key, drift_user_stats_key, delegate_pda_key, perp_market_key, oracle_key) ==
    <<[pubkey |-> drift_state_key, is_signer |-> FALSE, is_writable |-> FALSE],
      [pubkey |-> drift_user_key, is_signer |-> FALSE, is_writable |-> TRUE],
      [pubkey |-> drift_user_stats_key, is_signer |-> FALSE, is_writable |-> TRUE],
      [pubkey |-> delegate_pda_key, is_signer |-> TRUE, is_writable |-> FALSE],
      [pubkey |-> perp_market_key, is_signer |-> FALSE, is_writable |-> TRUE],
      [pubkey |-> oracle_key, is_signer |-> FALSE, is_writable |-> FALSE]>>

\* invoke_ok: whether invoke_signed of the Drift instruction returns Ok.
\* `at_invoke`: the order account as it stands when the Drift call is made.
\* `reads`: 0 the call ended before the handler read its arguments, 1 before
\* the Drift call, 2 it reached the Drift call.
execute_with_commitment(account, clock_slot, clock, args, drift_user, invoke_ok) ==
    LET fail(e, n) == [result |-> e, ghost_order |-> account, calls |-> <<>>,
                       at_invoke |-> account, reads |-> n]
    IN
    IF account = NoAccount THEN fail("AccountNotInitialized", 0)
    ELSE IF account.status # "ReadyToExecute" THEN fail("NotReady", 0)
    ELSE IF drift_user # account.drift_user THEN fail("DriftUserMismatch", 0)
    ELSE IF ~(clock_slot < account.ready_expires_at) THEN fail("Expired", 0)
    ELSE IF args.nonce # account.nonce THEN fail("NonceMismatch", 1)
    ELSE IF commitment(args.order_params, args.nonce) # account.params_commitment
    THEN fail("CommitmentMismatch", 1)
    ELSE IF ~invoke_ok THEN fail("SubcallFailure", 2)
    ELSE [result |-> "Ok",
          ghost_order |-> [account EXCEPT !.status = "Executed",
                                          !.executed_at = clock],
          calls |-> <<commitment_build_drift_place_perp_order(
                        args.order_params.market_index,
                        args.order_params.order_side,
                        args.order_params.base_asset_amount,
                        args.order_params.reduce_only)>>,
          at_invoke |-> account,
          reads |-> 2]

ExecuteWithCommitment(keeper, args, drift_user, invoke_ok) ==
    LET out == execute_with_commitment(ghost_order, slot, now, args, drift_user,
                                       invoke_ok)
    IN /\ ghost_order' = out.ghost_order
       /\ settlements' = settlements \o out.calls
       /\ last' = Outcome("execute_with_commitment", out.result, NoEvent)
       /\ UNCHANGED <<custody, vault, executor, encrypted_orders, now, slot>>

\* The calls that differ in what the program reads.
ExecuteWithCommitmentCalls ==
    LET call(a, u, ok) == [args |-> a, drift_user |-> u, invoke_ok |-> ok]
        sample == CHOOSE a \in ExecuteWithCommitmentArgs : TRUE
        reads(a, u) == execute_with_commitment(ghost_order, slot, now, a, u, TRUE).reads
    IN IF ghost_order = NoAccount \/ ghost_order.status # "ReadyToExecute"
       THEN {call(sample, "drift_user", TRUE)}
       ELSE {call(sample, "other_user", TRUE)}
            \cup IF reads(sample, "drift_user") < 1
                 THEN {call(sample, "drift_user", TRUE)}
                 ELSE UNION {IF reads(a, "drift_user") < 2
                             THEN {call(a, "drift_user", TRUE)}
                             ELSE {call(a, "drift_user", ok) : ok \in BOOLEAN} :
                               a \in ExecuteWithCommitmentArgs}

-----------------------------------------------------------------------------
(* ghost-crank: instructions/execute_trigger.rs                            *)

TRIGGER_PLACE_PERP_ORDER_DISCRIMINATOR == 23

trigger_build_drift_place_perp_order(market_index, side, base_asset_amount, reduce_only) ==
    <<TRIGGER_PLACE_PERP_ORDER_DISCRIMINATOR, 0, IF side = "Long" THEN 0 ELSE 1>>
    \o to_le_bytes(market_index, 2)
    \o to_le_bytes(base_asset_amount, 8)
    \o to_le_bytes(0, 8)
    \o <<IF reduce_only THEN 1 ELSE 0, 0, 0>>

trigger_build_drift_short_account_metas(drift_state_key, drift_user_key, drift_user_stats_key, authority_key, perp_market_key, oracle_key) ==
    <<[pubkey |-> drift_state_key, is_writable |-> FALSE],
      [pubkey |-> drift_user_key, is_writable |-> TRUE],
      [pubkey |-> drift_user_stats_key, is_writable |-> TRUE],
      [pubkey |-> authority_key, is_writable |-> FALSE],
      [pubkey |-> perp_market_key, is_writable |-> TRUE],
      [pubkey |-> oracle_key, is_writable |-> FALSE]>>

\* The number of call handlers bundled after the Drift handler.
build_handlers_with_redelegation(remaining_accounts_len) ==
    IF remaining_accounts_len < 3 THEN 1 ELSE 2

\* An execute_trigger without the status guard.
execute_trigger_any_status(account, clock, args, remaining_accounts_len, invoke_ok) ==
    IF account = NoAccount
    THEN [result |-> "AccountNotInitialized", ghost_order |-> account, calls |-> <<>>,
          handlers |-> 0]
    ELSE [result |-> "Ok",
          ghost_order |-> [account EXCEPT !.status = "Executed",
                                          !.executed_at = clock],
          calls |-> <<trigger_build_drift_place_perp_order(
                        account.market_index, account.order_side,
                        account.base_asset_amount, account.reduce_only)>>,
          handlers |-> 1]

execute_trigger(account, clock, args, remaining_accounts_len, invoke_ok) ==
    LET fail(e) == [result |-> e, ghost_order |-> account, calls |-> <<>>,
                    at_invoke |-> account, handlers |-> 0]
    IN
    IF account = NoAccount THEN fail("AccountNotInitialized")
    ELSE IF account.status # "Triggered" THEN fail("OrderNotTriggered")
    ELSE IF ~invoke_ok THEN fail("SubcallFailure")
    ELSE [result |-> "Ok",
          ghost_order |-> [account EXCEPT !.status = "Executed",
                                          !.executed_at = clock],
          calls |-> <<trigger_build_drift_place_perp_order(
                        account.market_index, account.order_side,
                        account.base_asset_amount, account.reduce_only)>>,
          at_invoke |-> [account EXCEPT !.status = "Executed",
                                        !.executed_at = clock],
          handlers |-> IF args.redelegate_after_execution
                       THEN build_handlers_with_redelegation(remaining_accounts_len)
                       ELSE 1]

\* The calls that differ in what the handler reads: the status check comes
\* before everything else.
ExecuteTriggerCalls ==
    LET call(r, n, ok) == [args |-> [redelegate_after_execution |-> r],
                           remaining_accounts_len |-> n, invoke_ok |-> ok]
    IN IF ghost_order = NoAccount \/ ghost_order.status # "Triggered"
       THEN {call(FALSE, 3, TRUE)}
       ELSE {call(r, n, ok) : r \in BOOLEAN, n \in RemainingAccountLens,
                              ok \in BOOLEAN}

ExecuteTrigger(payer, args, remaining_accounts_len, invoke_ok) ==
    LET out == execute_trigger(ghost_order, now, args, remaining_accounts_len,
                               invoke_ok)
    IN /\ ghost_order' = out.ghost_order
       /\ settlements' = settlements \o out.calls
       /\ last' = Outcome("execute_trigger", out.result, NoEvent)
       /\ UNCHANGED <<custody, vault, executor, encrypted_orders, now, slot>>

-----------------------------------------------------------------------------
(* ghost-crank: instructions/cancel_order.rs                                *)

\* A cancel_order without the status guard.
cancel_order_any_status(account, owner) ==
    IF account = NoAccount
    THEN [result |-> "AccountNotInitialized", ghost_order |-> account]
    ELSE IF account.owner # owner
    THEN [result |-> "ConstraintSeeds", ghost_order |-> account]
    ELSE [result |-> "Ok", ghost_order |-> [account EXCEPT !.status = "Cancelled"]]

cancel_order(account, owner) ==
    IF account = NoAccount
    THEN [result |-> "AccountNotInitialized", ghost_order |-> account]
    ELSE IF account.owner # owner
    THEN [result |-> "ConstraintSeeds", ghost_order |-> account]
    ELSE IF ~(account.status = "Pending" \/ account.status = "Active")
    THEN [result |-> "OrderNotCancellable", ghost_order |-> account]
    ELSE [result |-> "Ok", ghost_order |-> [account EXCEPT !.status = "Cancelled"]]

CancelOrder(owner) ==
    LET out == cancel_order(ghost_order, owner)
    IN /\ ghost_order' = out.ghost_order
       /\ last' = Outcome("cancel_order", out.result, NoEvent)
       /\ UNCHANGED <<custody, vault, executor, encrypted_orders, now, slot, settlements>>

-----------------------------------------------------------------------------
(* ghost-crank: instructions/delegate_order.rs, schedule_monitoring.rs     *)

\* delegate_order hands the order PDA to the delegation program and writes no
\* field of the order.  invoke_ok: whether the delegation call returns Ok.
delegate_order(account, owner, invoke_ok) ==
    IF account = NoAccount
    THEN [result |-> "AccountNotInitialized", ghost_order |-> account]
    ELSE IF account.owner # owner
    THEN [result |-> "ConstraintSeeds", ghost_order |-> account]
    ELSE IF ~invoke_ok THEN [result |-> "SubcallFailure", ghost_order |-> account]
    ELSE [result |-> "Ok", ghost_order |-> account]

DelegateOrder(owner, invoke_ok) ==
    LET out == delegate_order(ghost_order, owner, invoke_ok)
    IN /\ ghost_order' = out.ghost_order
       /\ last' = Outcome("delegate_order", out.result, NoEvent)
       /\ UNCHANGED <<custody, vault, executor, encrypted_orders, now, slot, settlements>>

TaskIds == {1}

ScheduleMonitoringArgs ==
    [task_id : TaskIds, check_interval_millis : {400}, max_iterations : {10}]

\* invoke_ok: whether the schedule call to the Magic program returns Ok.
schedule_monitoring(account, args, invoke_ok) ==
    IF account = NoAccount
    THEN [result |-> "AccountNotInitialized", ghost_order |-> account]
    ELSE IF account.status # "Active"
    THEN [result |-> "OrderNotActive", ghost_order |-> account]
    ELSE IF ~invoke_ok THEN [result |-> "SubcallFailure", ghost_order |-> account]
    ELSE [result |-> "Ok",
          ghost_order |-> [account EXCEPT !.crank_task_id = args.task_id]]

ScheduleMonitoring(payer, args, invoke_ok) ==
    LET out == schedule_monitoring(ghost_order, args, invoke_ok)
    IN /\ ghost_order' = out.ghost_order
       /\ last' = Outcome("schedule_monitoring", out.result, NoEvent)
       /\ UNCHANGED <<custody, vault, executor, encrypted_orders, now, slot, settlements>>

\* The outcome of the bundled call matters only when the call is reached.
InvokeOutcomes(reached) == IF reached THEN BOOLEAN ELSE {TRUE}

-----------------------------------------------------------------------------
(* The ledger clock seen by ghost-crank: Clock.slot and Clock.unix_timestamp *)

\* Slots and seconds advance together; a step of the model is 50 or 51 slots
\* and one second.
SlotSteps == {50, 51}

AdvanceSlot(d) ==
    /\ slot + d <= MaxSlot
    /\ slot' = slot + d
    /\ now' = now + 1
    /\ last' = Outcome("clock", "Ok", NoEvent)
    /\ UNCHANGED <<custody, vault, executor, encrypted_orders, settlements, ghost_order>>

NextCrank ==
    \/ \E args \in CreateGhostOrderCalls : CreateGhostOrder(Owner, args)
    \/ \E owner \in Signers : ActivateOrder(owner)
    \/ \E price_feed \in CrankFeeds : CheckTrigger(price_feed)
    \/ \E execution_price \in MarkReadyPrices : MarkReady(execution_price)
    \/ \E keeper \in Signers, c \in ExecuteWithCommitmentCalls :
          ExecuteWithCommitment(keeper, c.args, c.drift_user, c.invoke_ok)
    \/ \E payer \in Signers, c \in ExecuteTriggerCalls :
          ExecuteTrigger(payer, c.args, c.remaining_accounts_len, c.invoke_ok)
    \/ \E owner \in Signers : CancelOrder(owner)
    \/ \E owner \in Signers :
          \E invoke_ok \in InvokeOutcomes(delegate_order(ghost_order, owner, TRUE).result = "Ok") :
             DelegateOrder(owner, invoke_ok)
    \/ \E payer \in Signers, args \in ScheduleMonitoringArgs :
          \E invoke_ok \in InvokeOutcomes(schedule_monitoring(ghost_order, args, TRUE).result = "Ok") :
             ScheduleMonitoring(payer, args, invoke_ok)
    \/ \E d \in SlotSteps : AdvanceSlot(d)

SpecCrank == Init /\ [][NextCrank]_vars

-----------------------------------------------------------------------------
(* The registry methods of ExecutorAuthority called on their own           *)

\* 32-byte values: two more than the registry holds.
RegistryHashes == {<<"bytes", <<i>>>> : i \in 1..(MAX_ORDERS_PER_EXECUTOR + 2)}

\* The registry after add_order_hash of the first k values, in order.
RECURSIVE Filled(_)
Filled(k) ==
    IF k = 0 THEN NewExecutorAuthority(Owner)
    ELSE add_order_hash(Filled(k - 1), <<"bytes", <<k>>>>).self

RegistryFills == {0, MAX_ORDERS_PER_EXECUTOR - 1, MAX_ORDERS_PER_EXECUTOR}

InitRegistry ==
    /\ executor \in {Filled(k) : k \in RegistryFills}
    /\ encrypted_orders = <<>>
    /\ now = 0
    /\ slot = 0
    /\ settlements = <<>>
    /\ ghost_order = NoAccount
    /\ custody = "base_layer"
    /\ vault = NoAccount
    /\ last = Outcome("init_executor", "Ok", NoEvent)

\* One call per slot, MaxRegistryOps calls in a run.
AddOrderHash(hash) ==
    LET out == add_order_hash(executor, hash)
    IN /\ slot < MaxRegistryOps
       /\ slot' = slot + 1
       /\ executor' = out.self
       /\ last' = Outcome("add_order_hash", out.err, NoEvent)
       /\ UNCHANGED <<custody, vault, encrypted_orders, now, settlements, ghost_order>>

RemoveOrderHash(hash) ==
    LET out == remove_order_hash(executor, hash)
    IN /\ slot < MaxRegistryOps
       /\ slot' = slot + 1
       /\ executor' = out.self
       /\ last' = Outcome("remove_order_hash", out.err, NoEvent)
       /\ UNCHANGED <<custody, vault, encrypted_orders, now, settlements, ghost_order>>

NextRegistry ==
    \/ \E hash \in RegistryHashes : AddOrderHash(hash)
    \/ \E hash \in RegistryHashes : RemoveOrderHash(hash)

SpecRegistry == InitRegistry /\ [][NextRegistry]_vars

-----------------------------------------------------------------------------
(* authorize_executor called on its own, with one executor more than the   *)
(* allow-list holds                                                        *)

AllowListExecutors == {"keeper", "e2", "e3", "e4", "e5"}

NextAllowList ==
    \E signer \in Signers, who \in AllowListExecutors, authorize \in BOOLEAN :
       AuthorizeExecutor(signer, [executor |-> who, authorize |-> authorize])

SpecAllowList == Init /\ [][NextAllowList]_vars

-----------------------------------------------------------------------------
(* Properties of consume_and_execute                                       *)

\* The order a consume_and_execute call describes, for well-formed bytes.
ConsumedOrder(self, args) ==
    CompressedGhostOrder(self.owner, args.order_id, args.market_index,
        args.trigger_price, TriggerCondition(args.trigger_condition),
        OrderSide(args.order_side), args.base_asset_amount, args.reduce_only,
        args.expiry, args.feed_id, args.salt)

Registered(self, args) ==
    \E i \in 1..self.order_hash_count :
       self.order_hashes[i] = compute_hash(ConsumedOrder(self, args))

Expired(args, clock) == args.expiry > 0 /\ clock > args.expiry

PriceSatisfies(args) ==
    \/ args.trigger_condition = 0 /\ args.current_price >= args.trigger_price
    \/ args.trigger_condition = 1 /\ args.current_price <= args.trigger_price

Registry(self) ==
    <<self.order_hashes, self.order_hash_count, self.order_count>>

ConsumeStep == last'.op = "consume_and_execute"

\* C1: consume_and_execute aborts with an error, issues no settlement and
\* leaves order_hashes, order_hash_count, order_count and is_delegated as they
\* were whenever the recomputed hash is not registered, or the order is
\* expired (expiry > 0 and now > expiry), or the supplied price does not
\* satisfy the trigger condition; and every consume_and_execute step that
\* ends in an error leaves the registry, is_delegated and the settlements
\* untouched.
C1_ConsumeAbortsWithoutEffect ==
    /\ [](\A args \in WellFormedConsumeArgs, invoke_ok \in BOOLEAN :
            (\/ ~Registered(executor, args)
             \/ Expired(args, now)
             \/ ~PriceSatisfies(args))
            => LET out == consume_and_execute(executor, Owner, now, args, invoke_ok)
               IN /\ out.result # "Ok"
                  /\ out.calls = <<>>
                  /\ Registry(out.executor) = Registry(executor)
                  /\ out.executor.is_delegated = executor.is_delegated)
    /\ [][ConsumeStep /\ last'.result # "Ok"
            => /\ settlements' = settlements
               /\ Registry(executor') = Registry(executor)
               /\ executor'.is_delegated = executor.is_delegated]_vars

\* An expired order was refused while its hash is still registered.
C1_Witness ==
    /\ last.op = "consume_and_execute"
    /\ last.result = "OrderExpired"
    /\ executor.order_hash_count > 0
    /\ settlements = <<>>

-----------------------------------------------------------------------------
(* Properties of the shared registry under both execution paths            *)

\* The order a trigger_and_execute call describes for `account`.
TriggeredOrder(account, args) ==
    CompressedGhostOrder(account.owner, args.order_id, args.market_index,
        args.trigger_price, TriggerCondition(args.trigger_condition),
        OrderSide(args.order_side), args.base_asset_amount, args.reduce_only,
        args.expiry, account.feed_id, args.salt)

ReadableFeeds == {f \in PriceFeeds : read_pyth_price(f).err = "Ok"}

\* C3: replay-safety.  Once consume_and_execute or trigger_and_execute has
\* succeeded for hash H, an execution attempt with the same parameters fails
\* with OrderHashNotFound or OrderNotActive until H is registered again.
\* Stated for the attempt that follows the successful execution: the owner
\* calls trigger_and_execute, over a readable feed, with the parameters of
\* the order that has just been executed.
C3_ReplayFails ==
    \A key \in DOMAIN encrypted_orders, args \in WellFormedTriggerArgs,
       price_feed \in ReadableFeeds :
       LET account == encrypted_orders[key]
       IN (/\ last.result = "Ok"
           /\ last.event.name \in {"GhostOrderExecuted", "OrderTriggeredAndExecuted"}
           /\ last.event.order_hash = account.order_hash
           /\ compute_hash(TriggeredOrder(account, args)) = account.order_hash)
          => trigger_and_execute(executor, account, Owner, now, args, price_feed,
                                 3, TRUE).result
                \in {"OrderHashNotFound", "OrderNotActive"}

\* C4: every step that takes an EncryptedOrder from Active to Executed or
\* Cancelled leaves its order_hash out of the owner's registry, so no
\* Executed or Cancelled order has its hash left registered.
C4_TerminalStatusRemovesHash ==
    [][\A key \in DOMAIN encrypted_orders :
          (/\ key \in DOMAIN encrypted_orders'
           /\ encrypted_orders[key].status = "Active"
           /\ encrypted_orders'[key].status \in {"Executed", "Cancelled"})
          => encrypted_orders'[key].order_hash
                \notin Range(ActiveHashes(executor'))]_vars

-----------------------------------------------------------------------------
(* Properties of the GhostOrder lifecycle                                  *)

HasOrder == ghost_order # NoAccount

StoredParams(self) ==
    [market_index |-> self.market_index, order_side |-> self.order_side,
     base_asset_amount |-> self.base_asset_amount, reduce_only |-> self.reduce_only]

\* C5: a GhostOrder becomes ReadyToExecute only in a step taken from
\* Triggered and becomes Executed only in a step taken from ReadyToExecute.
C5_StatusOrder ==
    [][(HasOrder /\ ghost_order' # NoAccount /\ ghost_order'.status # ghost_order.status)
         => /\ ghost_order'.status = "ReadyToExecute" => ghost_order.status = "Triggered"
            /\ ghost_order'.status = "Executed"
                 => ghost_order.status = "ReadyToExecute"]_vars

\* C6: on a ReadyToExecute order (mark_ready at slot T recorded
\* ready_expires_at = T + 100) execute_with_commitment fails with Expired
\* exactly at the slots after ready_expires_at, the slots at which
\* is_ready_expired holds, and passes the window check at every slot up to
\* and including ready_expires_at.
C6_WindowAgrees ==
    [][(/\ last'.op = "execute_with_commitment"
        /\ HasOrder
        /\ ghost_order.status = "ReadyToExecute"
        /\ last'.result # "DriftUserMismatch")
         => /\ (last'.result = "Expired") = (slot > ghost_order.ready_expires_at)
            /\ (last'.result = "Expired") = is_ready_expired(ghost_order, slot)]_vars

\* C7: on a ReadyToExecute order inside its window (the slot has not passed
\* ready_expires_at) execute_with_commitment fails with NonceMismatch on a
\* nonce other than the stored one and with CommitmentMismatch on parameters
\* whose hash with the nonce differs from params_commitment, in both cases
\* with no settlement and the order unchanged; with the matching parameters
\* and nonce it issues exactly one settlement and sets status Executed.
C7_InWindowOutcomes ==
    (HasOrder /\ ghost_order.status = "ReadyToExecute"
       /\ slot <= ghost_order.ready_expires_at)
    => \A args \in ExecuteWithCommitmentArgs :
         LET out == execute_with_commitment(ghost_order, slot, now, args,
                                            ghost_order.drift_user, TRUE)
         IN IF args.nonce # ghost_order.nonce
            THEN /\ out.result = "NonceMismatch"
                 /\ out.calls = <<>>
                 /\ out.ghost_order = ghost_order
            ELSE IF commitment(args.order_params, args.nonce)
                      # ghost_order.params_commitment
            THEN /\ out.result = "CommitmentMismatch"
                 /\ out.calls = <<>>
                 /\ out.ghost_order = ghost_order
            ELSE /\ out.result = "Ok"
                 /\ Len(out.calls) = 1
                 /\ out.ghost_order.status = "Executed"

\* C8: a ReadyToExecute order's params_commitment is the hash of its own
\* stored market_index, order_side, base_asset_amount and reduce_only
\* followed by its nonce.
C8_CommitmentBindsStoredParams ==
    (HasOrder /\ ghost_order.status = "ReadyToExecute")
    => ghost_order.params_commitment
         = commitment(StoredParams(ghost_order), ghost_order.nonce)

\* C9: mark_ready succeeds only on a Triggered order; at slot T it then sets
\* status ReadyToExecute and ready_expires_at = T + 100 and leaves the owner,
\* the order parameters, the trigger fields, the nonce and the expiry as they
\* were; on any other status it fails with NotTriggered and changes nothing.
C9_MarkReady ==
    [][(last'.op = "mark_ready" /\ HasOrder)
         => IF ghost_order.status = "Triggered"
            THEN /\ last'.result = "Ok"
                 /\ ghost_order'.status = "ReadyToExecute"
                 /\ ghost_order'.ready_expires_at = slot + 100
                 /\ \A f \in {"owner", "order_id", "market_index", "order_side",
                               "base_asset_amount", "reduce_only", "trigger_price",
                               "trigger_condition", "feed_id", "nonce", "expiry"} :
                       ghost_order'[f] = ghost_order[f]
            ELSE /\ last'.result = "NotTriggered"
                 /\ ghost_order' = ghost_order]_vars

\* mark_ready has just succeeded at slot 50.
C9_Witness ==
    /\ last.op = "mark_ready"
    /\ last.result = "Ok"
    /\ HasOrder
    /\ ghost_order.status = "ReadyToExecute"
    /\ slot = 50
    /\ ghost_order.ready_expires_at = 150

-----------------------------------------------------------------------------
(* Properties of the registry                                              *)

NoDuplicates(self) ==
    \A i, j \in 1..self.order_hash_count :
       i # j => self.order_hashes[i] # self.order_hashes[j]

\* C10: after any sequence of add_order_hash and remove_order_hash calls the
\* active region order_hashes[0..order_hash_count) holds no duplicate and
\* order_hash_count <= 16; adding a hash that is not registered to a registry
\* of 16 entries fails with MaxOrdersReached and changes nothing; and after
\* removing any one entry a new distinct hash can be added.
C10_RegistryBounded ==
    /\ [](/\ NoDuplicates(executor)
          /\ executor.order_hash_count <= 16
          /\ \A hash \in RegistryHashes \ Range(ActiveHashes(executor)) :
                /\ executor.order_hash_count = 16
                     => add_order_hash(executor, hash)
                          = [err |-> "MaxOrdersReached", self |-> executor]
                /\ \A old \in Range(ActiveHashes(executor)) :
                     LET removed == remove_order_hash(executor, old)
                         added == add_order_hash(removed.self, hash)
                     IN /\ removed.err = "Ok"
                        /\ added.err = "Ok"
                        /\ Range(ActiveHashes(added.self))
                             = (Range(ActiveHashes(executor)) \ {old}) \cup {hash})
    /\ [][last'.op = "add_order_hash" /\ last'.result = "MaxOrdersReached"
            => executor.order_hash_count = 16 /\ executor' = executor]_vars

\* A full registry refused an add, lost one entry and took a new hash.
C10_Witness ==
    /\ last.op = "add_order_hash"
    /\ last.result = "Ok"
    /\ executor.order_hash_count = 16
    /\ executor.order_count = 17
    /\ slot = 3

\* C11: add_order_hash of a hash already in the registry fails with
\* OrderHashExists and leaves order_hashes, order_hash_count and order_count
\* unchanged, at every registry size from 1 to 16.
C11_DuplicateRejected ==
    \A hash \in Range(ActiveHashes(executor)) :
       add_order_hash(executor, hash) = [err |-> "OrderHashExists", self |-> executor]

\* C12: remove_order_hash of a registered hash deletes exactly that entry,
\* decrements order_hash_count, keeps the surviving hashes in order and
\* contiguous from index 0, zeroes the vacated last slot and leaves
\* order_count unchanged, after which has_order_hash is false for it and
\* true for every other registered hash; on an absent hash it fails with
\* OrderHashNotFound and changes nothing.
C12_RemoveOrderHash ==
    /\ [](\A hash \in RegistryHashes :
            LET out == remove_order_hash(executor, hash)
                n == executor.order_hash_count
            IN IF hash \in Range(ActiveHashes(executor))
               THEN /\ out.err = "Ok"
                    /\ out.self.order_hash_count = n - 1
                    /\ ActiveHashes(out.self)
                         = SelectSeq(ActiveHashes(executor), LAMBDA h : h # hash)
                    /\ out.self.order_hashes[n] = ZeroHash
                    /\ \A i \in (n + 1)..16 :
                          out.self.order_hashes[i] = executor.order_hashes[i]
                    /\ out.self.order_count = executor.order_count
                    /\ ~has_order_hash(out.self, hash)
                    /\ \A other \in Range(ActiveHashes(executor)) \ {hash} :
                          has_order_hash(out.self, other)
               ELSE out = [err |-> "OrderHashNotFound", self |-> executor])
    /\ [][last'.op = "remove_order_hash"
            => IF last'.result = "Ok"
               THEN /\ executor'.order_hash_count = executor.order_hash_count - 1
                    /\ executor'.order_count = executor.order_count
                    /\ Range(ActiveHashes(executor')) \subseteq Range(ActiveHashes(executor))
               ELSE /\ last'.result = "OrderHashNotFound"
                    /\ executor' = executor]_vars

\* The first entry of a full registry has been removed: the second moved to
\* the front and the sixteenth slot was zeroed.
C12_Witness ==
    /\ last.op = "remove_order_hash"
    /\ last.result = "Ok"
    /\ executor.order_hash_count = 15
    /\ executor.order_hashes[1] = <<"bytes", <<2>>>>
    /\ executor.order_hashes[15] = <<"bytes", <<16>>>>
    /\ executor.order_hashes[16] = ZeroHash

-----------------------------------------------------------------------------
(* Properties of the executor allow-list                                   *)

AllowList(self) == {self.authorized_executors[i] : i \in 1..self.executor_count}

\* C13: after any sequence of add_authorized_executor and
\* remove_authorized_executor calls authorized_executors[0..executor_count)
\* holds no duplicate and executor_count <= 4, and adding a fifth distinct
\* executor fails with MaxExecutorsReached and leaves the allow-list unchanged.
C13_AllowListBounded ==
    /\ [](/\ \A i, j \in 1..executor.executor_count :
               i # j => executor.authorized_executors[i] # executor.authorized_executors[j]
          /\ executor.executor_count <= 4
          /\ executor.executor_count = 4
               => \A who \in AllowListExecutors \ AllowList(executor) :
                     add_authorized_executor(executor, who)
                       = [err |-> "MaxExecutorsReached", self |-> executor])
    /\ [][(last'.op = "authorize_executor" /\ last'.result = "MaxExecutorsReached")
            => executor.executor_count = 4 /\ executor' = executor]_vars

\* A fifth executor has just been refused by a full allow-list.
C13_Witness ==
    /\ last.op = "authorize_executor"
    /\ last.result = "MaxExecutorsReached"
    /\ executor.executor_count = 4
    /\ Cardinality(AllowList(executor)) = 4

\* C14: add_authorized_executor of an executor already on the allow-list
\* returns success and leaves authorized_executors and executor_count
\* unchanged, at every allow-list size up to 4.
C14_AddIsIdempotent ==
    \A who \in AllowList(executor) :
       add_authorized_executor(executor, who) = [err |-> "Ok", self |-> executor]

\* The caller is neither the registry's owner nor on its allow-list.
NotAuthorized(self, payer) == payer # self.owner /\ payer \notin AllowList(self)

\* The error of the checks trigger_and_execute makes up to and including the
\* authorization check, for a caller that is not authorized.
RejectedWith(account, args) ==
    IF account = NoAccount THEN "AccountNotInitialized"
    ELSE IF args.trigger_condition \notin {0, 1} THEN "InvalidTriggerCondition"
    ELSE IF args.order_side \notin {0, 1} THEN "InvalidOrderData"
    ELSE IF account.status # "Active" THEN "OrderNotActive"
    ELSE "ExecutorNotAuthorized"

\* Every trigger_and_execute by a caller that is not authorized changes
\* nothing and returns ExecutorNotAuthorized or, with early_checks, the error
\* of an earlier check where one applies.
UnauthorizedTriggerRejected(early_checks) ==
    \A payer \in Signers, key \in DOMAIN encrypted_orders,
       args \in TriggerAndExecuteArgs, price_feed \in PriceFeeds :
       NotAuthorized(executor, payer)
       => LET out == trigger_and_execute(executor, AccountAt(key), payer, now, args,
                                         price_feed, 3, TRUE)
          IN /\ out.result = IF early_checks THEN RejectedWith(AccountAt(key), args)
                             ELSE "ExecutorNotAuthorized"
             /\ out.executor = executor
             /\ out.encrypted_order = AccountAt(key)
             /\ out.calls = <<>>

\* The allow-list changes only in a successful authorize_executor signed by
\* the owner, and an executor it has just revoked is not authorized.
AllowListStep ==
    /\ (\/ executor'.authorized_executors # executor.authorized_executors
        \/ executor'.executor_count # executor.executor_count)
       => /\ last'.op = "authorize_executor"
          /\ last'.result = "Ok"
          /\ last'.event.owner = executor.owner
    /\ (/\ last'.op = "authorize_executor"
        /\ last'.result = "Ok"
        /\ ~last'.event.authorized
        /\ last'.event.executor # executor.owner)
       => NotAuthorized(executor', last'.event.executor)

\* C15 as stated: a trigger_and_execute by a caller that is neither the
\* owner nor on the allow-list is rejected with ExecutorNotAuthorized and
\* changes nothing; the allow-list changes only through authorize_executor
\* signed by the owner, and a revoked executor is rejected from then on.
C15_UnauthorizedGetsExecutorNotAuthorized ==
    /\ [] UnauthorizedTriggerRejected(FALSE)
    /\ [][AllowListStep]_vars

\* C15 amended: such a call is rejected and changes nothing, with
\* ExecutorNotAuthorized when the order is Active and the condition and side
\* bytes are valid, and otherwise with the error of the earlier check
\* (InvalidTriggerCondition, InvalidOrderData, OrderNotActive); the
\* allow-list changes only through authorize_executor signed by the owner,
\* and a revoked executor is rejected from then on.
C15_UnauthorizedTriggerRejected ==
    /\ [] UnauthorizedTriggerRejected(TRUE)
    /\ [][AllowListStep]_vars

\* The keeper, not on the allow-list, has just been refused on an Active order.
C15_Witness ==
    /\ last.op = "trigger_and_execute"
    /\ last.result = "ExecutorNotAuthorized"
    /\ NotAuthorized(executor, "keeper")
    /\ \E key \in DOMAIN encrypted_orders : encrypted_orders[key].status = "Active"

-----------------------------------------------------------------------------
(* Properties of racing keepers on one GhostOrder                          *)

\* C16: however check_trigger, mark_ready, execute_trigger,
\* execute_with_commitment and cancel_order interleave on one GhostOrder, at
\* most one settlement is issued for it, and a call whose status guard does
\* not match the current status fails with an error (check_trigger: returns)
\* and leaves every field of the order as it was.
C16_RacingKeepers ==
    /\ [](/\ Len(settlements) <= 1
          /\ HasOrder =>
             /\ Len(settlements) = 1 => ghost_order.status = "Executed"
             /\ ghost_order.status # "Triggered" =>
                  /\ \A c \in [r : BOOLEAN, n : RemainingAccountLens, ok : BOOLEAN] :
                        LET out == execute_trigger(ghost_order, now,
                                      [redelegate_after_execution |-> c.r], c.n, c.ok)
                        IN /\ out.result = "OrderNotTriggered"
                           /\ out.ghost_order = ghost_order
                           /\ out.calls = <<>>
                  /\ \A execution_price \in MarkReadyPrices :
                        mark_ready(ghost_order, slot, execution_price)
                          = [result |-> "NotTriggered", ghost_order |-> ghost_order]
             /\ ghost_order.status # "ReadyToExecute" =>
                  \A args \in ExecuteWithCommitmentArgs, drift_user \in DriftUsers,
                     ok \in BOOLEAN :
                     LET out == execute_with_commitment(ghost_order, slot, now, args,
                                                        drift_user, ok)
                     IN /\ out.result = "NotReady"
                        /\ out.ghost_order = ghost_order
                        /\ out.calls = <<>>
             /\ ghost_order.status \notin {"Pending", "Active"} =>
                  cancel_order(ghost_order, ghost_order.owner)
                    = [result |-> "OrderNotCancellable", ghost_order |-> ghost_order]
             /\ ghost_order.status # "Active" =>
                  \A price_feed \in CrankFeeds :
                     crank_check_trigger(ghost_order, now, price_feed)
                       = [result |-> "Ok", ghost_order |-> ghost_order])
    /\ [][/\ settlements' # settlements
             => /\ Len(settlements') = Len(settlements) + 1
                /\ ghost_order.status \in {"Triggered", "ReadyToExecute"}
                /\ ghost_order'.status = "Executed"
          /\ (last'.op \in {"execute_trigger", "execute_with_commitment", "mark_ready",
                            "cancel_order"}
              /\ last'.result # "Ok")
             => ghost_order' = ghost_order /\ settlements' = settlements]_vars

\* One keeper's execute_trigger settled the order and another's, arriving
\* after it, was refused.
C16_Witness ==
    /\ last.op = "execute_trigger"
    /\ last.result = "OrderNotTriggered"
    /\ HasOrder
    /\ ghost_order.status = "Executed"
    /\ Len(settlements) = 1

-----------------------------------------------------------------------------
(* Properties of the bundle of consume_and_execute                         *)

\* C18: a successful consume_and_execute with keep_delegated false bundles a
\* CommitAndUndelegate and sets is_delegated to false; with keep_delegated
\* true it bundles a Commit with handler and leaves is_delegated as it was.
\* Either bundle commits the authority record and carries exactly one call
\* handler, addressed to the Drift program, holding the settlement.
C18_BundleShape ==
    \A payer \in Signers, args \in WellFormedConsumeArgs :
       LET out == consume_and_execute(executor, payer, now, args, TRUE)
           bundle == out.magic_action
       IN out.result = "Ok"
          => /\ bundle.action = IF args.keep_delegated THEN "Commit"
                                ELSE "CommitAndUndelegate"
             /\ out.executor.is_delegated
                  = IF args.keep_delegated THEN executor.is_delegated ELSE FALSE
             /\ bundle.commit_type = "WithHandler"
             /\ bundle.commited_accounts = <<"executor_authority">>
             /\ Len(bundle.call_handlers) = 1
             /\ bundle.call_handlers[1].destination_program
                  = "dRiftyHA39MWEi3m9aunc5MzRF1JYuBsbn6VPcn33UH"
             /\ <<bundle.call_handlers[1].args>> = out.calls

\* Two registered orders have both been consumed, the second just now: two
\* bundles were issued and the record is not delegated.
C18_Witness ==
    /\ last.op = "consume_and_execute"
    /\ last.result = "Ok"
    /\ Len(settlements) = 2
    /\ executor.order_count = 2
    /\ executor.order_hash_count = 0
    /\ ~executor.is_delegated

-----------------------------------------------------------------------------
(* Properties of expiry and cancellation of a GhostOrder                   *)

\* C19: a GhostOrder enters Expired only in a step taken from Triggered or
\* ReadyToExecute, and check_trigger on a Triggered or ReadyToExecute order
\* whose expiry or ready window has passed moves it to Expired.
C19_ExpiredFromTriggeredOrReady ==
    /\ [][(HasOrder /\ ghost_order'.status = "Expired" /\ ghost_order.status # "Expired")
            => ghost_order.status \in {"Triggered", "ReadyToExecute"}]_vars
    /\ []((/\ HasOrder
           /\ ghost_order.status \in {"Triggered", "ReadyToExecute"}
           /\ \/ ghost_is_expired(ghost_order, now)
              \/ is_ready_expired(ghost_order, slot))
          => \A price_feed \in CrankFeeds :
                crank_check_trigger(ghost_order, now, price_feed).ghost_order.status
                  = "Expired")

\* C20: cancel_order succeeds only for the order's owner and only on a
\* Pending or Active order; it then sets status Cancelled and changes no
\* other field.  The owner's call on a Triggered, ReadyToExecute, Executed,
\* Cancelled or Expired order fails with OrderNotCancellable, and every
\* failing call changes nothing.
C20_CancelOrder ==
    /\ [](HasOrder =>
            \A signer \in Signers :
               LET out == cancel_order(ghost_order, signer)
                   cancellable == ghost_order.status \in {"Pending", "Active"}
               IN /\ (out.result = "Ok") = (signer = ghost_order.owner /\ cancellable)
                  /\ out.result = "Ok"
                       => out.ghost_order = [ghost_order EXCEPT !.status = "Cancelled"]
                  /\ (signer = ghost_order.owner /\ ~cancellable)
                       => out.result = "OrderNotCancellable"
                  /\ out.result # "Ok" => out.ghost_order = ghost_order)
    /\ [][(last'.op = "cancel_order" /\ HasOrder)
            => IF last'.result = "Ok"
               THEN /\ ghost_order.status \in {"Pending", "Active"}
                    /\ ghost_order' = [ghost_order EXCEPT !.status = "Cancelled"]
               ELSE ghost_order' = ghost_order]_vars

\* The owner's cancel_order of an Executed order has just been refused.
C20_Witness ==
    /\ last.op = "cancel_order"
    /\ last.result = "OrderNotCancellable"
    /\ HasOrder
    /\ ghost_order.status = "Executed"

-----------------------------------------------------------------------------
(* Properties of the first and last statuses of a GhostOrder               *)

TerminalStatuses == {"Executed", "Cancelled", "Expired"}

\* C21: a GhostOrder is created Pending, and once it is Executed, Cancelled
\* or Expired no instruction of ghost-crank changes its status again.
C21_PendingFirstTerminalLast ==
    /\ [][/\ (~HasOrder /\ ghost_order' # NoAccount) => ghost_order'.status = "Pending"
          /\ (HasOrder /\ ghost_order.status \in TerminalStatuses)
             => /\ ghost_order' # NoAccount
                /\ ghost_order'.status = ghost_order.status]_vars
    /\ []((HasOrder /\ ghost_order.status \in TerminalStatuses)
          => /\ \A signer \in Signers :
                  /\ activate_handler(ghost_order, signer).ghost_order = ghost_order
                  /\ cancel_order(ghost_order, signer).ghost_order = ghost_order
             /\ \A args \in ScheduleMonitoringArgs :
                  schedule_monitoring(ghost_order, args, TRUE).ghost_order = ghost_order
             /\ \A price_feed \in CrankFeeds :
                  crank_check_trigger(ghost_order, now, price_feed).ghost_order
                    = ghost_order)

\* The owner's activate_order of a Cancelled order has just been refused.
C21_Witness ==
    /\ last.op = "activate_order"
    /\ last.result = "ConstraintRaw"
    /\ HasOrder
    /\ ghost_order.status = "Cancelled"

-----------------------------------------------------------------------------
(* Properties of the EncryptedOrder lifecycle                              *)

\* C23: an EncryptedOrder is created Active; its status changes only from
\* Active to Executed or from Active to Cancelled; close_encrypted_order
\* succeeds only for the owner and only on an Executed or Cancelled order,
\* and the owner's call on an Active order fails with InvalidOrderData.
C23_EncryptedOrderLifecycle ==
    /\ [][\A key \in DOMAIN encrypted_orders' :
            IF key \notin DOMAIN encrypted_orders
            THEN encrypted_orders'[key].status = "Active"
            ELSE encrypted_orders'[key].status # encrypted_orders[key].status
                 => /\ encrypted_orders[key].status = "Active"
                    /\ encrypted_orders'[key].status \in {"Executed", "Cancelled"}]_vars
    /\ [](\A key \in DOMAIN encrypted_orders, signer \in Signers :
            LET account == encrypted_orders[key]
                out == close_encrypted_order(account, signer)
                terminal == account.status \in {"Executed", "Cancelled"}
            IN /\ (out.result = "Ok") = (signer = account.owner /\ terminal)
               /\ (signer = account.owner /\ account.status = "Active")
                    => out.result = "InvalidOrderData"
               /\ out.result = "Ok" => out.encrypted_order = NoAccount
               /\ out.result # "Ok" => out.encrypted_order = account)
    /\ [][(last'.op = "close_encrypted_order" /\ last'.result = "Ok")
            => \E key \in DOMAIN encrypted_orders :
                  /\ encrypted_orders[key].status \in {"Executed", "Cancelled"}
                  /\ key \notin DOMAIN encrypted_orders']_vars

\* The owner's close of an order that is still Active has just been refused.
C23_Witness ==
    /\ last.op = "close_encrypted_order"
    /\ last.result = "InvalidOrderData"
    /\ \E key \in DOMAIN encrypted_orders : encrypted_orders[key].status = "Active"

-----------------------------------------------------------------------------
(* Properties of the check operations                                      *)

\* check_price_update and the trigger check of trigger_and_execute change
\* the order or the registry only when the price read satisfies the trigger.
EncryptedChecksFrame ==
    \A key \in DOMAIN encrypted_orders :
       LET account == encrypted_orders[key]
       IN /\ \A price_feed \in PriceFeeds :
               check_price_update(account, price_feed).encrypted_order = account
          /\ \A payer \in Signers, price_feed \in PriceFeeds :
             \A c \in TriggerCalls(payer, key) :
               LET out == trigger_and_execute(executor, account, payer, now, c.args,
                              price_feed, c.remaining_accounts_len, c.invoke_ok)
                   read == read_pyth_price(price_feed)
               IN (out.encrypted_order # account \/ out.executor # executor)
                     => /\ read.err = "Ok"
                        /\ check_trigger(TriggeredOrder(account, c.args), read.price)

\* ghost-crank check_trigger changes the order only when the price read
\* satisfies the trigger.
CrankCheckFrame ==
    ghost_order # NoAccount
       => \A price_feed \in CrankFeeds :
             LET out == crank_check_trigger(ghost_order, now, price_feed)
             IN out.ghost_order # ghost_order
                   => ghost_check_trigger(ghost_order,
                                          crank_read_pyth_price(price_feed))

-----------------------------------------------------------------------------
(* Properties of the strict oracle reader                                  *)

\* Feed accounts around every boundary of the reader: either owner, data
\* shorter than and equal to 64 bytes, accepted and rejected
\* markers, and prices of either sign that need one or several bytes.
ReaderOwners == {PYTH_RECEIVER_ID, "other"}
ReaderMagics == {PYTH_MAGIC, P2UV_MAGIC, <<80, 89, 84, 0>>}
ReaderLens == {3, 63, 64}
ReaderPrices == {-70000, -1, 256, TriggerPrice}

\* C25: the strict reader returns InvalidPriceFeed when the feed's owner is
\* not the oracle identity, else when the data is shorter than 64 bytes, else
\* when the four bytes at offset 0 are neither accepted marker; only when all
\* three checks pass does it return the signed little-endian 8-byte integer
\* at offset 40, and check_price_update reports exactly that price.
C25_StrictReader ==
    /\ (\A owner \in ReaderOwners, magic \in ReaderMagics, len \in ReaderLens,
            price \in ReaderPrices :
            LET read == read_pyth_price(PriceFeed(owner, magic, len, price))
                passes == /\ owner = PYTH_RECEIVER_ID
                          /\ len >= 64
                          /\ magic \in {PYTH_MAGIC, P2UV_MAGIC}
            IN IF passes THEN read.err = "Ok" /\ read.price = price
               ELSE read.err = "InvalidPriceFeed")
    /\ (\A key \in DOMAIN encrypted_orders, price_feed \in PriceFeeds :
            LET account == encrypted_orders[key]
                out == check_price_update(account, price_feed)
                read == read_pyth_price(price_feed)
            IN account.status = "Active"
                  => IF read.err = "Ok"
                     THEN /\ out.result = "Ok"
                          /\ out.event.current_price = read.price
                     ELSE /\ out.result = "InvalidPriceFeed"
                          /\ out.event = NoEvent)

\* check_price_update has just reported the price below the trigger price,
\* read from the eight bytes at offset 40 of a well-formed feed.
C25_Witness ==
    /\ last.op = "check_price_update"
    /\ last.result = "Ok"
    /\ last.event.name = "PriceUpdateChecked"
    /\ last.event.current_price = TriggerPrice - 1

-----------------------------------------------------------------------------
(* Properties of the settlement call                                       *)

\* Builder inputs around the byte boundaries of each field.
BuilderMarketIndexes == {0, 3, 7, 255, 256, 65535}
BuilderAmounts == {0, 5, 255, 256, 65536, 1000000000}
BuilderSides == {"Long", "Short"}

\* The 40-byte layout of a market order for the given fields.
IsMarketOrderPayload(data, market_index, side, base_asset_amount, reduce_only) ==
    /\ Len(data) = 40
    /\ \A i \in 1..40 : data[i] \in 0..255
    /\ SubSeq(data, 1, 8) = <<69, 161, 93, 202, 120, 126, 76, 185>>
    /\ data[9] = 0
    /\ data[10] = 1
    /\ data[11] = (IF side = "Long" THEN 0 ELSE 1)
    /\ data[12] = 0
    /\ le_value(SubSeq(data, 13, 20)) = base_asset_amount
    /\ le_value(SubSeq(data, 21, 28)) = 0
    /\ le_value(SubSeq(data, 29, 30)) = market_index
    /\ data[31] = (IF reduce_only THEN 1 ELSE 0)
    /\ \A i \in 32..40 : data[i] = 0

\* C26: for every market index, side, amount and reduce-only flag,
\* build_drift_place_perp_order returns exactly 40 bytes: the selector at
\* [0..8), order type 0 at [8], market category 1 at [9], the direction at
\* [10], 0 at [11], the amount as little-endian u64 at [12..20), price 0 at
\* [20..28), the market index as little-endian u16 at [28..30), the
\* reduce-only flag at [30] and zero in [31..40); every settlement issued
\* by consume_and_execute is such a payload for the executed order.
C26_MarketOrderPayload ==
    /\ [](\A market_index \in BuilderMarketIndexes, side \in BuilderSides,
            base_asset_amount \in BuilderAmounts, reduce_only \in BOOLEAN :
            IsMarketOrderPayload(
                build_drift_place_perp_order(market_index, side, base_asset_amount,
                                             reduce_only),
                market_index, side, base_asset_amount, reduce_only))
    /\ [][(ConsumeStep /\ last'.result = "Ok")
            => \E args \in WellFormedConsumeArgs :
                  /\ compute_hash(ConsumedOrder(executor, args)) = last'.event.order_hash
                  /\ IsMarketOrderPayload(settlements'[Len(settlements')],
                         args.market_index, OrderSide(args.order_side),
                         args.base_asset_amount, args.reduce_only)]_vars

\* consume_and_execute has just issued a 40-byte settlement for a Short order.
C26_Witness ==
    /\ last.op = "consume_and_execute"
    /\ last.result = "Ok"
    /\ settlements # <<>>
    /\ Len(settlements[Len(settlements)]) = 40
    /\ settlements[Len(settlements)][11] = 1

\* The account order of the settlement call: venue state (read-only), trader
\* account (writable), trader authority (read-only), trader stats (writable),
\* market (writable), oracle (read-only).
SettlementAccountOrder ==
    <<[pubkey |-> "drift_state", is_writable |-> FALSE],
      [pubkey |-> "drift_user", is_writable |-> TRUE],
      [pubkey |-> "drift_authority", is_writable |-> FALSE],
      [pubkey |-> "drift_user_stats", is_writable |-> TRUE],
      [pubkey |-> "perp_market", is_writable |-> TRUE],
      [pubkey |-> "oracle", is_writable |-> FALSE]>>

\* An account list without its signer flags.
AccountOrder(metas) ==
    [i \in DOMAIN metas |->
        [pubkey |-> metas[i].pubkey, is_writable |-> metas[i].is_writable]]

\* C27: for the same market index, side, amount and reduce-only flag every
\* settlement call site (consume_and_execute, trigger_and_execute,
\* execute_trigger, execute_with_commitment) emits the same 40-byte payload
\* with the same 8-byte selector and the same account order.
C27_CallSitesAgree ==
    /\ [](\A market_index \in MarketIndexes, side \in BuilderSides,
            base_asset_amount \in CrankAmounts, reduce_only \in BOOLEAN :
            LET data == build_drift_place_perp_order(market_index, side,
                            base_asset_amount, reduce_only)
            IN /\ Len(data) = 40
               /\ trigger_build_drift_place_perp_order(market_index, side,
                      base_asset_amount, reduce_only) = data
               /\ commitment_build_drift_place_perp_order(market_index, side,
                      base_asset_amount, reduce_only) = data)
    /\ [](/\ AccountOrder(drift_accounts) = SettlementAccountOrder
          /\ AccountOrder(trigger_build_drift_short_account_metas("drift_state",
                 "drift_user", "drift_user_stats", "drift_authority", "perp_market",
                 "oracle")) = SettlementAccountOrder
          /\ AccountOrder(commitment_drift_accounts("drift_state", "drift_user",
                 "drift_user_stats", "drift_authority", "perp_market", "oracle"))
                = SettlementAccountOrder)
    /\ [][(/\ last'.op \in {"execute_trigger", "execute_with_commitment"}
           /\ last'.result = "Ok")
            => /\ Len(settlements') = Len(settlements) + 1
               /\ settlements'[Len(settlements')]
                     = build_drift_place_perp_order(ghost_order.market_index,
                           ghost_order.order_side, ghost_order.base_asset_amount,
                           ghost_order.reduce_only)]_vars

-----------------------------------------------------------------------------
(* Properties of compute_hash                                              *)

HashFields ==
    {"owner", "order_id", "market_index", "trigger_price", "trigger_condition",
     "order_side", "base_asset_amount", "reduce_only", "expiry", "feed_id", "salt"}

\* Orders whose integer fields sit on either side of a byte boundary.
HashBaseOrders ==
    { CompressedGhostOrder(Owner, id, 3, tp, "Above", "Short", 5, TRUE, 1, "feedA", 1) :
        id \in {1, 255}, tp \in {-1, TriggerPrice} }

\* The values a single field may change to.
OtherValues(order, field) ==
    CASE field = "owner" -> {"keeper"}
      [] field = "trigger_condition" -> {"Above", "Below"} \ {order.trigger_condition}
      [] field = "order_side" -> {"Long", "Short"} \ {order.order_side}
      [] field = "reduce_only" -> {~order.reduce_only}
      [] field = "feed_id" -> {"feedB"}
      [] field = "salt" -> {order.salt + 1}
      [] OTHER -> {order[field] + 1, order[field] + 256}

\* C28: compute_hash is a function of the eleven fields serialized in the
\* fixed order: equal orders give equal digests, and two orders that differ
\* in a single field give different buffers and different digests; every
\* order registered by create_compressed_order is stored under that digest.
C28_HashDeterministicAndSensitive ==
    /\ (\A o1 \in HashBaseOrders :
            /\ \A o2 \in HashBaseOrders :
                  (compute_hash(o1) = compute_hash(o2)) = (o1 = o2)
            /\ \A field \in HashFields : \A v \in OtherValues(o1, field) :
                  LET o2 == [o1 EXCEPT ![field] = v]
                  IN /\ serialize(o2) # serialize(o1)
                     /\ Len(serialize(o2)) = Len(serialize(o1))
                     /\ compute_hash(o2) # compute_hash(o1))
    /\ (LET out == [a \in WellFormedCreateArgs |->
                         create_compressed_order(executor, Owner, now, a)]
          IN \A a1 \in WellFormedCreateArgs, a2 \in WellFormedCreateArgs :
                (out[a1].result = "Ok" /\ out[a2].result = "Ok")
                   => (out[a1].event.order_hash = out[a2].event.order_hash)
                         = (a1 = a2))

\* The registry holds two digests of orders that differ only in the salt.
C28_Witness ==
    \E i \in 1..executor.order_hash_count, j \in 1..executor.order_hash_count :
       LET b1 == executor.order_hashes[i][2]
           b2 == executor.order_hashes[j][2]
       IN /\ executor.order_hashes[i] # executor.order_hashes[j]
          /\ Len(b1) = Len(b2)
          /\ SubSeq(b1, 1, Len(b1) - 1) = SubSeq(b2, 1, Len(b2) - 1)
          /\ b1[Len(b1)] # b2[Len(b2)]

-----------------------------------------------------------------------------
(* Properties of the trigger predicate                                     *)

\* Prices on both sides of zero and of the trigger price, and the extremes
\* the model checker can represent.
TriggerRange == {-2147483647, -1, 0, 1, TriggerPrice - 1, TriggerPrice,
                 TriggerPrice + 1, 2147483647}

\* C29: check_trigger of CompressedGhostOrder and of GhostOrder returns true
\* for Above exactly when p >= t and for Below exactly when p <= t, so both
\* conditions hold at p = t; ghost-crank check_trigger moves an Active,
\* unexpired order to Triggered exactly when the price it read satisfies that.
C29_TriggerPredicate ==
    /\ \A p \in TriggerRange, t \in TriggerRange :
          LET above == CompressedGhostOrder(Owner, 1, 3, t, "Above", "Short", 5,
                                            TRUE, 0, "feedA", 1)
              below == [above EXCEPT !.trigger_condition = "Below"]
              ghost_above == [trigger_condition |-> "Above", trigger_price |-> t]
              ghost_below == [trigger_condition |-> "Below", trigger_price |-> t]
          IN /\ check_trigger(above, p) = (p >= t)
             /\ check_trigger(below, p) = (p <= t)
             /\ ghost_check_trigger(ghost_above, p) = (p >= t)
             /\ ghost_check_trigger(ghost_below, p) = (p <= t)
             /\ check_trigger(above, t) /\ check_trigger(below, t)
             /\ ghost_check_trigger(ghost_above, t) /\ ghost_check_trigger(ghost_below, t)
    /\ (HasOrder /\ ghost_order.status = "Active" /\ ~ghost_is_expired(ghost_order, now))
          => \A price_feed \in CrankFeeds :
                LET p == crank_read_pyth_price(price_feed)
                    t == ghost_order.trigger_price
                    out == crank_check_trigger(ghost_order, now, price_feed)
                IN (out.ghost_order.status = "Triggered")
                      = (IF ghost_order.trigger_condition = "Above"
                         THEN p >= t ELSE p <= t)

\* check_trigger has just fired a Below order at exactly its trigger price.
C29_Witness ==
    /\ last.op = "check_trigger"
    /\ HasOrder
    /\ ghost_order.status = "Triggered"
    /\ ghost_order.trigger_condition = "Below"
    /\ ghost_order.execution_price = ghost_order.trigger_price

-----------------------------------------------------------------------------
(* Properties of re-delegation after execution                             *)

\* trigger_and_execute with redelegate_after either bundles the
\* re-delegation handler or fails with no state change.
TriggerRedelegates ==
    \A key \in DOMAIN encrypted_orders, payer \in Signers :
       \A c \in TriggerCalls(payer, key) :
          LET account == encrypted_orders[key]
              out == trigger_and_execute(executor, account, payer, now, c.args,
                         c.price_feed, c.remaining_accounts_len, c.invoke_ok)
              built == build_redelegate_handler(c.remaining_accounts_len)
          IN c.args.redelegate_after
                => /\ (out.result = "Ok" /\ out.calls # <<>>) => built.err = "Ok"
                   /\ (out.reads = 3 /\ built.err # "Ok")
                         => /\ out.result = "MagicActionFailed"
                            /\ out.executor = executor
                            /\ out.encrypted_order = account
                            /\ out.calls = <<>>

\* execute_trigger with redelegate_after_execution either bundles the
\* re-delegation handler after the Drift handler or fails with no state change.
ExecuteTriggerRedelegates ==
    (HasOrder /\ ghost_order.status = "Triggered")
       => \A c \in ExecuteTriggerCalls :
             LET out == execute_trigger(ghost_order, now, c.args,
                                        c.remaining_accounts_len, c.invoke_ok)
             IN c.args.redelegate_after_execution
                   => /\ out.result = "Ok" => out.handlers = 2
                      /\ c.remaining_accounts_len < 3
                            => /\ out.result # "Ok"
                               /\ out.ghost_order = ghost_order
                               /\ out.calls = <<>>

\* C30: when the caller requests re-delegation after execution, an execution
\* that reports success has included the re-delegation handler in its bundle;
\* if the handler cannot be built (fewer than three delegation accounts) the
\* whole operation fails with an error and no state change.
C30_RedelegationNeverSkipped ==
    TriggerRedelegates /\ ExecuteTriggerRedelegates

-----------------------------------------------------------------------------
(* Properties of the order of operations                                   *)

\* C32: in every execution operation (consume_and_execute,
\* trigger_and_execute, execute_trigger, execute_with_commitment) all state
\* mutations are performed before the settlement sub-call is invoked and the
\* invocation is the last state-affecting step: the accounts as they stand
\* at the invocation are the accounts the operation leaves.
C32_MutationsBeforeInvocation ==
    /\ \A payer \in Signers : \A c \in ConsumeCalls :
          LET out == consume_and_execute(executor, payer, now, c.args, c.invoke_ok)
          IN out.calls # <<>> => out.at_invoke = out.executor
    /\ \A key \in DOMAIN encrypted_orders, payer \in Signers :
          \A c \in TriggerCalls(payer, key) :
             LET out == trigger_and_execute(executor, encrypted_orders[key], payer,
                            now, c.args, c.price_feed, c.remaining_accounts_len,
                            c.invoke_ok)
             IN out.calls # <<>> => out.at_invoke = <<out.executor, out.encrypted_order>>
    /\ \A c \in ExecuteTriggerCalls :
          LET out == execute_trigger(ghost_order, now, c.args,
                                     c.remaining_accounts_len, c.invoke_ok)
          IN out.calls # <<>> => out.at_invoke = out.ghost_order
    /\ \A c \in ExecuteWithCommitmentCalls :
          LET out == execute_with_commitment(ghost_order, slot, now, c.args,
                                             c.drift_user, c.invoke_ok)
          IN out.calls # <<>> => out.at_invoke = out.ghost_order

-----------------------------------------------------------------------------
(* Properties of the guards of consume_and_execute                         *)

\* C33: consume_and_execute, like trigger_and_execute, issues a settlement
\* only when the price of the order's oracle feed at execution time
\* satisfies the order's trigger condition, whatever price value the caller
\* chooses: for every state of the oracle feed, a call that settles is one
\* whose order the feed's price triggers.
C33_ConsumeSettlesOnOraclePrice ==
    \A price_feed \in ReadableFeeds, payer \in Signers : \A c \in ConsumeCalls :
       LET out == consume_and_execute(executor, payer, now, c.args, c.invoke_ok)
       IN out.calls # <<>>
             => check_trigger(ConsumedOrder(executor, c.args),
                              read_pyth_price(price_feed).price)

\* C34: consume_and_execute removes an order hash and issues a settlement
\* only when the caller is the registry's owner or an executor on the
\* owner's allow-list; any other signer is rejected with an authorization
\* error and the registry is unchanged.
C34_ConsumeRequiresAuthorization ==
    \A payer \in Signers : \A c \in ConsumeCalls :
       LET out == consume_and_execute(executor, payer, now, c.args, c.invoke_ok)
           by_owner == consume_and_execute(executor, executor.owner, now, c.args,
                                           c.invoke_ok)
       IN ~(payer = executor.owner \/ is_authorized_executor(executor, payer))
             => /\ out.result # "Ok"
                /\ out.executor = executor
                /\ out.calls = <<>>
                /\ by_owner.result = "Ok"
                      => out.result \in {"ExecutorNotAuthorized", "Unauthorized"}

-----------------------------------------------------------------------------
(* Properties of the registry shared by the two bridge mechanisms          *)

\* C35: in every reachable state, under any interleaving of
\* create_encrypted_order, create_compressed_order, consume_and_execute,
\* trigger_and_execute and cancel_encrypted_order, each Active EncryptedOrder
\* has its order_hash in its owner's registry, so the owner's
\* cancel_encrypted_order on an Active order never fails with
\* OrderHashNotFound.
C35_ActiveOrderIsRegistered ==
    \A key \in DOMAIN encrypted_orders :
       LET account == encrypted_orders[key]
       IN account.status = "Active"
             => /\ has_order_hash(executor, account.order_hash)
                /\ cancel_encrypted_order(executor, account, account.owner).result
                      # "OrderHashNotFound"

-----------------------------------------------------------------------------
(* Properties of the progress of a GhostOrder                              *)

\* The order accounts one ghost-crank instruction can leave at the given
\* clock and slot, over every signer, feed, price and argument.
CrankSuccessors(account, clock, clock_slot) ==
    {activate_handler(account, owner).ghost_order : owner \in Signers}
    \cup {cancel_order(account, owner).ghost_order : owner \in Signers}
    \cup {crank_check_trigger(account, clock, f).ghost_order : f \in CrankFeeds}
    \cup {mark_ready(account, clock_slot, p).ghost_order : p \in MarkReadyPrices}
    \cup {execute_trigger(account, clock, [redelegate_after_execution |-> r], 3,
                          TRUE).ghost_order : r \in BOOLEAN}
    \cup {execute_with_commitment(account, clock_slot, clock, a, u, TRUE).ghost_order :
             a \in ExecuteWithCommitmentArgs, u \in DriftUsers}
    \cup {schedule_monitoring(account, a, TRUE).ghost_order :
             a \in ScheduleMonitoringArgs}

\* Some sequence of at most n instructions, at the given clock or later,
\* takes the order to a terminal status.
RECURSIVE CanReachTerminal(_, _, _, _)
CanReachTerminal(account, clock, clock_slot, n) ==
    \/ account.status \in TerminalStatuses
    \/ /\ n > 0
       /\ \E t \in clock..MaxTime, s \in {clock_slot} \cup {clock_slot + d : d \in SlotSteps} :
             \E next \in CrankSuccessors(account, t, s) \ {account} :
                CanReachTerminal(next, t, s, n - 1)

\* C36: from every reachable non-terminal GhostOrder state (Pending, Active,
\* Triggered, ReadyToExecute) some sequence of ghost-crank operations leads
\* to Executed, Cancelled or Expired; in particular an order that is still
\* ReadyToExecute after its ready window has passed can be moved out of
\* ReadyToExecute by some operation.
C36_TerminalStateReachable ==
    HasOrder
       => /\ CanReachTerminal(ghost_order, now, slot, 4)
          /\ (ghost_order.status = "ReadyToExecute"
              /\ ~(slot < ghost_order.ready_expires_at))
                => \E t \in now..MaxTime, s \in {slot} \cup {slot + d : d \in SlotSteps} :
                      \E next \in CrankSuccessors(ghost_order, t, s) :
                         next.status # "ReadyToExecute"

-----------------------------------------------------------------------------
(* Custody of the ExecutorAuthority: delegate_executor, undelegate_executor *)

\* invoke_ok: whether the delegation call of delegate_executor_authority
\* returns Ok.  The handler reads the record and writes nothing to it; the
\* one assignment is_delegated = true is in post_delegate_handler, which the
\* program does not expose as an instruction.
delegate_executor(self, owner, invoke_ok) ==
    IF self.owner # owner THEN [result |-> "ConstraintSeeds", executor |-> self]
    ELSE IF self.is_delegated THEN [result |-> "ExecutorDelegated", executor |-> self]
    ELSE IF ~invoke_ok THEN [result |-> "SubcallFailure", executor |-> self]
    ELSE [result |-> "Ok", executor |-> self]

DelegateExecutor(owner, invoke_ok) ==
    LET out == delegate_executor(executor, owner, invoke_ok)
    IN /\ executor' = out.executor
       /\ custody' = IF out.result = "Ok" THEN "ephemeral_rollup" ELSE custody
       /\ last' = Outcome("delegate_executor", out.result, NoEvent)
       /\ UNCHANGED <<vault, encrypted_orders, now, slot, settlements, ghost_order>>

\* invoke_ok: whether magic_builder.build_and_invoke() returns Ok.
undelegate_executor(self, payer, invoke_ok) ==
    LET fail(e) == [result |-> e, executor |-> self, magic_action |-> NoMagicAction]
    IN
    IF ~self.is_delegated THEN fail("ExecutorNotDelegated")
    ELSE IF ~invoke_ok THEN fail("SubcallFailure")
    ELSE [result |-> "Ok",
          executor |-> [self EXCEPT !.is_delegated = FALSE],
          magic_action |-> [action |-> "CommitAndUndelegate",
                            commit_type |-> "Standalone",
                            commited_accounts |-> <<"executor_authority">>,
                            call_handlers |-> <<>>,
                            undelegate_type |-> "Standalone"]]

UndelegateExecutor(payer, invoke_ok) ==
    LET out == undelegate_executor(executor, payer, invoke_ok)
    IN /\ executor' = out.executor
       /\ custody' = IF out.result = "Ok" THEN "base_layer" ELSE custody
       /\ last' = Outcome("undelegate_executor", out.result, NoEvent)
       /\ UNCHANGED <<vault, encrypted_orders, now, slot, settlements, ghost_order>>

\* The instructions that move custody of the record, with the creation of the
\* orders that consume_and_execute settles.
NextCustody ==
    \/ \E c \in CreateCompressedCalls :
          /\ executor.order_count < MaxBridgeOrderCount
          /\ BridgeScope(c.args)
          /\ CreateCompressedOrder(c.signer, c.args)
    \/ \E payer \in Signers, c \in ConsumeCalls :
          /\ BridgeScope(c.args)
          /\ ConsumeAndExecute(payer, c.args, c.invoke_ok)
    \/ \E owner \in Signers :
          \E invoke_ok \in InvokeOutcomes(delegate_executor(executor, owner, TRUE).result = "Ok") :
             DelegateExecutor(owner, invoke_ok)
    \/ \E payer \in Signers :
          \E invoke_ok \in InvokeOutcomes(undelegate_executor(executor, payer, TRUE).result = "Ok") :
             UndelegateExecutor(payer, invoke_ok)
    \/ Tick

SpecCustody == Init /\ [][NextCustody]_vars

\* C37: is_delegated is true exactly when the low-latency domain holds the
\* ExecutorAuthority record; a delegate_executor that succeeds leaves
\* is_delegated true, so that the undelegate_executor that follows passes its
\* ExecutorNotDelegated guard and a second delegate_executor is rejected with
\* ExecutorDelegated.
C37_FlagTracksCustody ==
    /\ [](executor.is_delegated <=> custody = "ephemeral_rollup")
    /\ [][(last'.op = "delegate_executor" /\ last'.result = "Ok")
            => /\ executor'.is_delegated
               /\ \A payer \in Signers :
                     undelegate_executor(executor', payer, TRUE).result = "Ok"
               /\ delegate_executor(executor', Owner, TRUE).result = "ExecutorDelegated"]_vars

-----------------------------------------------------------------------------
(* Properties of check_trigger on a short feed blob                        *)

\* C38: check_trigger of ghost-crank moves an Active order to Triggered only
\* on a price read from a well-formed feed blob: on a blob shorter than the
\* reader's minimum of 32 bytes the status does not become Triggered and no
\* execution_price is recorded, whatever the trigger condition and price.
C38_ShortBlobNeverTriggers ==
    \A price_feed \in CrankFeeds :
       (HasOrder /\ ghost_is_active(ghost_order) /\ price_feed.len < 32)
          => LET out == crank_check_trigger(ghost_order, now, price_feed)
             IN /\ out.ghost_order.status # "Triggered"
                /\ out.ghost_order.execution_price = ghost_order.execution_price

-----------------------------------------------------------------------------
(* The vault program: state/vault.rs                                       *)

SECONDS_PER_DAY == 86400
U8_MAX == 255

\* Rent::minimum_balance(8 + Vault::INIT_SPACE), in lamports.
RentExempt == 2

\* The address of the Vault account, and the zeroed Pubkey.
VaultKey == <<"vault", Owner>>
DefaultPubkey == "default"

is_currently_locked(self, current_time) ==
    self.is_locked /\ current_time < self.lockout_until

reset_daily_counters(self, current_time) ==
    [self EXCEPT !.trades_today = 0, !.session_start = current_time]

should_reset_session(self, current_time) ==
    current_time - self.session_start >= SECONDS_PER_DAY

\* checked_add(1) on a u8.
increment_trade(self) ==
    IF self.trades_today + 1 > U8_MAX
    THEN [err |-> "ArithmeticOverflow", self |-> self]
    ELSE [err |-> "Ok", self |-> [self EXCEPT !.trades_today = self.trades_today + 1]]

is_in_cooldown(self, current_time) ==
    /\ self.last_trade_was_loss
    /\ current_time < self.last_trade_time + self.cooldown_seconds

-----------------------------------------------------------------------------
(* vault: instructions                                                     *)

\* The account that `init` creates is zeroed and holds the rent; the handler
\* assigns twelve of its fields and leaves the others, cooldown_seconds with
\* them, at zero.
initialize(account, owner, clock, lockout_duration) ==
    IF VaultKey # <<"vault", owner>> THEN [result |-> "ConstraintSeeds", vault |-> account]
    ELSE IF account # NoAccount THEN [result |-> "AccountAlreadyInUse", vault |-> account]
    ELSE [result |-> "Ok",
          vault |-> [status |-> "Vault", owner |-> owner, lamports |-> RentExempt,
                     is_locked |-> FALSE, lockout_until |-> 0, lockout_count |-> 0,
                     lockout_duration |-> lockout_duration,
                     daily_loss_limit |-> 0, max_trades_per_day |-> 0,
                     trades_today |-> 0, session_start |-> clock,
                     total_deposited |-> 0, total_withdrawn |-> 0,
                     last_trade_was_loss |-> FALSE, last_trade_time |-> 0,
                     cooldown_seconds |-> 0, swap_in_progress |-> FALSE,
                     pending_swap_source_mint |-> DefaultPubkey,
                     pending_swap_dest_mint |-> DefaultPubkey,
                     pending_swap_amount_in |-> 0, pending_swap_min_out |-> 0,
                     balance_before_swap |-> 0]]

\* The account constraints shared by the instructions on an existing vault:
\* the seeds are derived from the signer and has_one compares the owner.
vault_accounts(self, owner) ==
    IF self = NoAccount THEN "AccountNotInitialized"
    ELSE IF VaultKey # <<"vault", owner>> THEN "ConstraintSeeds"
    ELSE IF self.owner # owner THEN "Unauthorized"
    ELSE "Ok"

\* transfer_ok: whether the system-program transfer from the owner returns Ok.
deposit(self, owner, amount, transfer_ok) ==
    IF vault_accounts(self, owner) # "Ok"
    THEN [result |-> vault_accounts(self, owner), vault |-> self]
    ELSE IF ~(amount > 0) THEN [result |-> "InvalidAmount", vault |-> self]
    ELSE IF ~transfer_ok THEN [result |-> "SubcallFailure", vault |-> self]
    ELSE [result |-> "Ok",
          vault |-> [self EXCEPT !.lamports = self.lamports + amount,
                                 !.total_deposited = self.total_deposited + amount]]

\* A withdraw without the lock check.
withdraw_ignoring_lock(self, owner, clock, amount) ==
    IF vault_accounts(self, owner) # "Ok"
    THEN [result |-> vault_accounts(self, owner), vault |-> self]
    ELSE IF ~(amount > 0) THEN [result |-> "InvalidAmount", vault |-> self]
    ELSE LET available == IF self.lamports > RentExempt
                          THEN self.lamports - RentExempt ELSE 0
         IN IF ~(amount <= available)
            THEN [result |-> "InsufficientFunds", vault |-> self]
            ELSE [result |-> "Ok",
                  vault |-> [self EXCEPT !.lamports = self.lamports - amount,
                                         !.total_withdrawn = self.total_withdrawn + amount]]

withdraw(self, owner, clock, amount) ==
    IF vault_accounts(self, owner) # "Ok"
    THEN [result |-> vault_accounts(self, owner), vault |-> self]
    ELSE IF is_currently_locked(self, clock) THEN [result |-> "VaultLocked", vault |-> self]
    ELSE IF ~(amount > 0) THEN [result |-> "InvalidAmount", vault |-> self]
    ELSE LET available == IF self.lamports > RentExempt
                          THEN self.lamports - RentExempt ELSE 0
         IN IF ~(amount <= available)
            THEN [result |-> "InsufficientFunds", vault |-> self]
            ELSE [result |-> "Ok",
                  vault |-> [self EXCEPT !.lamports = self.lamports - amount,
                                         !.total_withdrawn = self.total_withdrawn + amount]]

set_rules(self, owner, daily_loss_limit, max_trades_per_day, lockout_duration) ==
    IF vault_accounts(self, owner) # "Ok"
    THEN [result |-> vault_accounts(self, owner), vault |-> self]
    ELSE [result |-> "Ok",
          vault |-> [self EXCEPT !.daily_loss_limit = daily_loss_limit,
                                 !.max_trades_per_day = max_trades_per_day,
                                 !.lockout_duration = lockout_duration]]

manual_lock(self, owner, clock) ==
    IF vault_accounts(self, owner) # "Ok"
    THEN [result |-> vault_accounts(self, owner), vault |-> self]
    ELSE IF ~(self.lockout_duration > 0)
    THEN [result |-> "InvalidLockoutDuration", vault |-> self]
    ELSE [result |-> "Ok",
          vault |-> [self EXCEPT !.is_locked = TRUE,
                                 !.lockout_until = clock + self.lockout_duration,
                                 !.lockout_count = self.lockout_count + 1]]

unlock(self, owner, clock) ==
    IF vault_accounts(self, owner) # "Ok"
    THEN [result |-> vault_accounts(self, owner), vault |-> self]
    ELSE IF ~(clock >= self.lockout_until)
    THEN [result |-> "LockoutNotExpired", vault |-> self]
    ELSE [result |-> "Ok",
          vault |-> [self EXCEPT !.is_locked = FALSE, !.lockout_until = 0]]

\* The checks that swap_with_enforcement and pre_swap_check share, made on
\* the vault after the session reset; an error reverts the reset with the
\* rest of the transaction.
enforcement_error(current, current_time, amount_in, min_out) ==
    IF is_currently_locked(current, current_time) THEN "VaultLocked"
    ELSE IF is_in_cooldown(current, current_time) THEN "CooldownActive"
    ELSE IF ~(current.trades_today < current.max_trades_per_day) THEN "TradeLimitExceeded"
    ELSE IF ~(amount_in > 0 /\ min_out > 0) THEN "InvalidAmount"
    ELSE "Ok"

swap_with_enforcement(self, owner, current_time, amount_in, min_out) ==
    IF vault_accounts(self, owner) # "Ok"
    THEN [result |-> vault_accounts(self, owner), vault |-> self]
    ELSE LET current == IF should_reset_session(self, current_time)
                       THEN reset_daily_counters(self, current_time) ELSE self
             err == enforcement_error(current, current_time, amount_in, min_out)
             traded == increment_trade(current)
         IN IF err # "Ok" THEN [result |-> err, vault |-> self]
            ELSE IF traded.err # "Ok" THEN [result |-> traded.err, vault |-> self]
            ELSE [result |-> "Ok",
                  vault |-> [traded.self EXCEPT !.last_trade_time = current_time]]

\* destination_token_account: the token account handed in, as its owner and
\* its amount.
pre_swap_check(self, owner, current_time, source_mint, dest_mint, amount_in, min_out, destination_token_account) ==
    IF vault_accounts(self, owner) # "Ok"
    THEN [result |-> vault_accounts(self, owner), vault |-> self]
    ELSE IF destination_token_account.owner # VaultKey
    THEN [result |-> "InvalidTokenAccount", vault |-> self]
    ELSE LET current == IF should_reset_session(self, current_time)
                       THEN reset_daily_counters(self, current_time) ELSE self
             err == enforcement_error(current, current_time, amount_in, min_out)
         IN IF err # "Ok" THEN [result |-> err, vault |-> self]
            ELSE IF current.swap_in_progress
            THEN [result |-> "SwapAlreadyInProgress", vault |-> self]
            ELSE [result |-> "Ok",
                  vault |-> [current EXCEPT
                               !.swap_in_progress = TRUE,
                               !.pending_swap_source_mint = source_mint,
                               !.pending_swap_dest_mint = dest_mint,
                               !.pending_swap_amount_in = amount_in,
                               !.pending_swap_min_out = min_out,
                               !.balance_before_swap = destination_token_account.amount]]

post_swap_update(self, owner, clock, destination_token_account) ==
    IF vault_accounts(self, owner) # "Ok"
    THEN [result |-> vault_accounts(self, owner), vault |-> self]
    ELSE IF destination_token_account.owner # VaultKey
    THEN [result |-> "InvalidTokenAccount", vault |-> self]
    ELSE IF ~self.swap_in_progress THEN [result |-> "NoSwapInProgress", vault |-> self]
    ELSE IF destination_token_account.amount < self.balance_before_swap
    THEN [result |-> "ArithmeticOverflow", vault |-> self]
    ELSE LET actual_out == destination_token_account.amount - self.balance_before_swap
             marked == [self EXCEPT !.last_trade_was_loss =
                                       actual_out < self.pending_swap_min_out]
             traded == increment_trade(marked)
         IN IF traded.err # "Ok" THEN [result |-> traded.err, vault |-> self]
            ELSE [result |-> "Ok",
                  vault |-> [traded.self EXCEPT !.last_trade_time = clock,
                                                !.swap_in_progress = FALSE]]

-----------------------------------------------------------------------------
(* vault: the instructions as steps                                        *)

MaxVaultTime == 86400
MaxLockouts == 2
MaxDeposited == 2

LockoutDurations == {0, 1, SECONDS_PER_DAY + 1}
LossLimits == {0}
TradeLimits == {0, 2}
VaultAmounts == {0, 2}
SwapAmounts == {0, 1}
SwapMinimums == {0, 2}
Mints == {"mintA"}
TokenAccounts == {[owner |-> o, amount |-> a] : o \in {VaultKey, <<"vault", "keeper">>}, a \in {1, 3}}
ClockSteps == {SECONDS_PER_DAY}

Initialize(owner, lockout_duration) ==
    LET out == initialize(vault, owner, now, lockout_duration)
    IN /\ vault' = out.vault
       /\ last' = Outcome("initialize", out.result, NoEvent)
       /\ UNCHANGED <<custody, executor, encrypted_orders, now, slot, settlements, ghost_order>>

Deposit(owner, amount, transfer_ok) ==
    LET out == deposit(vault, owner, amount, transfer_ok)
    IN /\ vault' = out.vault
       /\ last' = Outcome("deposit", out.result, NoEvent)
       /\ UNCHANGED <<custody, executor, encrypted_orders, now, slot, settlements, ghost_order>>

Withdraw(owner, amount) ==
    LET out == withdraw(vault, owner, now, amount)
    IN /\ vault' = out.vault
       /\ last' = Outcome("withdraw", out.result, NoEvent)
       /\ UNCHANGED <<custody, executor, encrypted_orders, now, slot, settlements, ghost_order>>

SetRules(owner, daily_loss_limit, max_trades_per_day, lockout_duration) ==
    LET out == set_rules(vault, owner, daily_loss_limit, max_trades_per_day, lockout_duration)
    IN /\ vault' = out.vault
       /\ last' = Outcome("set_rules", out.result, NoEvent)
       /\ UNCHANGED <<custody, executor, encrypted_orders, now, slot, settlements, ghost_order>>

ManualLock(owner) ==
    LET out == manual_lock(vault, owner, now)
    IN /\ vault' = out.vault
       /\ last' = Outcome("manual_lock", out.result, NoEvent)
       /\ UNCHANGED <<custody, executor, encrypted_orders, now, slot, settlements, ghost_order>>

Unlock(owner) ==
    LET out == unlock(vault, owner, now)
    IN /\ vault' = out.vault
       /\ last' = Outcome("unlock", out.result, NoEvent)
       /\ UNCHANGED <<custody, executor, encrypted_orders, now, slot, settlements, ghost_order>>

SwapWithEnforcement(owner, amount_in, min_out) ==
    LET out == swap_with_enforcement(vault, owner, now, amount_in, min_out)
    IN /\ vault' = out.vault
       /\ last' = Outcome("swap_with_enforcement", out.result, NoEvent)
       /\ UNCHANGED <<custody, executor, encrypted_orders, now, slot, settlements, ghost_order>>

PreSwapCheck(owner, source_mint, dest_mint, amount_in, min_out, destination_token_account) ==
    LET out == pre_swap_check(vault, owner, now, source_mint, dest_mint, amount_in, min_out, destination_token_account)
    IN /\ vault' = out.vault
       /\ last' = Outcome("pre_swap_check", out.result, NoEvent)
       /\ UNCHANGED <<custody, executor, encrypted_orders, now, slot, settlements, ghost_order>>

PostSwapUpdate(owner, destination_token_account) ==
    LET out == post_swap_update(vault, owner, now, destination_token_account)
    IN /\ vault' = out.vault
       /\ last' = Outcome("post_swap_update", out.result, NoEvent)
       /\ UNCHANGED <<custody, executor, encrypted_orders, now, slot, settlements, ghost_order>>

\* Clock::unix_timestamp advances; a step of the model is a day.
VaultClock(step) ==
    /\ now + step <= MaxVaultTime
    /\ now' = now + step
    /\ last' = Outcome("clock", "Ok", NoEvent)
    /\ UNCHANGED <<custody, vault, executor, encrypted_orders, slot, settlements, ghost_order>>

NextVault ==
    \/ \E owner \in Signers, lockout_duration \in LockoutDurations :
          Initialize(owner, lockout_duration)
    \/ \E owner \in Signers, amount \in VaultAmounts :
          \E transfer_ok \in InvokeOutcomes(deposit(vault, owner, amount, TRUE).result = "Ok") :
             /\ vault # NoAccount => vault.total_deposited + amount <= MaxDeposited
             /\ Deposit(owner, amount, transfer_ok)
    \/ \E owner \in Signers, amount \in VaultAmounts :
          Withdraw(owner, amount)
    \/ \E owner \in Signers, daily_loss_limit \in LossLimits, max_trades_per_day \in TradeLimits, lockout_duration \in LockoutDurations :
          SetRules(owner, daily_loss_limit, max_trades_per_day, lockout_duration)
    \/ \E owner \in Signers :
          /\ vault # NoAccount => vault.lockout_count < MaxLockouts
          /\ ManualLock(owner)
    \/ \E owner \in Signers :
          Unlock(owner)
    \/ \E owner \in Signers, amount_in \in SwapAmounts, min_out \in SwapMinimums :
          SwapWithEnforcement(owner, amount_in, min_out)
    \/ \E owner \in Signers, source_mint \in Mints, dest_mint \in Mints, amount_in \in SwapAmounts, min_out \in SwapMinimums, destination_token_account \in TokenAccounts :
          PreSwapCheck(owner, source_mint, dest_mint, amount_in, min_out, destination_token_account)
    \/ \E owner \in Signers, destination_token_account \in TokenAccounts :
          PostSwapUpdate(owner, destination_token_account)
    \/ \E step \in ClockSteps :
          VaultClock(step)

SpecVault == Init /\ [][NextVault]_vars

-----------------------------------------------------------------------------
(* Properties of a locked vault                                            *)

HasVault == vault # NoAccount

Rejected(out, e) == out.result = e /\ out.vault = vault

\* C31: while the vault is locked (is_locked and now < lockout_until), a
\* withdraw, a swap_with_enforcement and a pre_swap_check of the owner fail
\* with VaultLocked and leave the vault as it was: its balance, trades_today,
\* session_start, last_trade_time and the pending swap.
C31_LockedVaultRejects ==
    /\ [](HasVault /\ is_currently_locked(vault, now)
            => /\ \A amount \in VaultAmounts :
                     Rejected(withdraw(vault, Owner, now, amount), "VaultLocked")
               /\ \A amount_in \in SwapAmounts, min_out \in SwapMinimums :
                     /\ Rejected(swap_with_enforcement(vault, Owner, now, amount_in, min_out), "VaultLocked")
                     /\ \A mint \in Mints, token \in TokenAccounts :
                           token.owner = VaultKey
                              => Rejected(pre_swap_check(vault, Owner, now, mint, mint, amount_in, min_out, token), "VaultLocked"))
    /\ [][(/\ HasVault
           /\ is_currently_locked(vault, now)
           /\ last'.op \in {"withdraw", "swap_with_enforcement", "pre_swap_check"})
            => /\ vault' = vault
               /\ last'.result \in {"VaultLocked", "ConstraintSeeds", "InvalidTokenAccount"}]_vars

\* A swap was just refused on a locked vault that holds a deposit, has traded
\* today and whose session is a day old: the reset of the daily counters that
\* precedes the lock check did not stay.
C31_Witness ==
    /\ HasVault
    /\ last.op = "swap_with_enforcement"
    /\ last.result = "VaultLocked"
    /\ is_currently_locked(vault, now)
    /\ should_reset_session(vault, now)
    /\ vault.trades_today > 0
    /\ vault.lamports > RentExempt

\* C39: once manual_lock has locked the vault until L, nothing the owner does
\* lets a withdraw or a swap succeed before L: while the vault is locked no
\* step lowers lockout_until or clears is_locked, and before lockout_until
\* unlock fails with LockoutNotExpired and leaves the vault as it was.
C39_LockoutNeverShortened ==
    /\ [](HasVault /\ now < vault.lockout_until
            => Rejected(unlock(vault, Owner, now), "LockoutNotExpired"))
    /\ [][(HasVault /\ is_currently_locked(vault, now))
            => /\ vault'.is_locked
               /\ vault'.lockout_until >= vault.lockout_until]_vars

-----------------------------------------------------------------------------
(* Properties of the cooldown after a losing swap                          *)

\* C40: after post_swap_update has recorded a losing swap at time t (the
\* output below the pending minimum), swap_with_enforcement and
\* pre_swap_check of the owner fail with CooldownActive at every time before
\* t + cooldown_seconds and change nothing; the cooldown is not empty, so a
\* swap attempted right after the loss is rejected.
C40_CooldownAfterLoss ==
    /\ []((/\ HasVault
           /\ vault.last_trade_was_loss
           /\ now < vault.last_trade_time + vault.cooldown_seconds
           /\ ~is_currently_locked(vault, now))
            => \A amount_in \in SwapAmounts, min_out \in SwapMinimums :
                  /\ Rejected(swap_with_enforcement(vault, Owner, now, amount_in, min_out), "CooldownActive")
                  /\ \A mint \in Mints, token \in TokenAccounts :
                        token.owner = VaultKey
                           => Rejected(pre_swap_check(vault, Owner, now, mint, mint, amount_in, min_out, token), "CooldownActive"))
    /\ [][(/\ last'.op = "post_swap_update"
           /\ last'.result = "Ok"
           /\ vault'.last_trade_was_loss
           /\ ~is_currently_locked(vault', now'))
            => /\ now' < vault'.last_trade_time + vault'.cooldown_seconds
               /\ \A amount_in \in SwapAmounts, min_out \in SwapMinimums :
                     swap_with_enforcement(vault', Owner, now', amount_in, min_out)
                        = [result |-> "CooldownActive", vault |-> vault']]_vars

====
